---- MODULE Spec2Model ----
(***************************************************************************)
(* The CloudWatch Logs pusher of internal/aws/cwlogs/pusher.go and the     *)
(* BoundedPusherMap of exporter/awsemfexporter/bounded_pusher_map.go.      *)
(*                                                                         *)
(* Specifications.                                                         *)
(*  - Spec, SpecLoaded: one logPusher, its current eventBatch and the      *)
(*    batches it hands to Client.PutLogEvents.                             *)
(*  - SpecBpm: one BoundedPusherMap and its caller.                        *)
(*  - SpecLsm: one logStreamManager and the goroutines calling InitStream. *)
(*  - SpecMulti: one multiStreamPusher with its logStreamManager and the   *)
(*    logPushers it makes, called by one goroutine.                        *)
(* Each of them leaves the variables of the others as they are at          *)
(* construction.                                                           *)
(*                                                                         *)
(* Representation.                                                         *)
(*  - Time.  The unit of time of the model is one hour (Hour): a timestamp *)
(*    t stands for t * 3,600,000 ms, and 24*3600*1e3 ms is 24 * Hour.  The *)
(*    inputs are therefore timestamps on whole hours.                      *)
(*  - Messages.  A message is kept as [src, n, suffix]: the first n bytes  *)
(*    of the original message src, followed by suffix.  Byte sizes and the *)
(*    event count are the real ones (26, 256 KiB, 1 MiB, 10000).           *)
(*  - An InputLogEvent carries an id, which stands for its address.        *)
(*  - Logger calls, and Entity.GoString (defined in the SDK package, which *)
(*    is not among the modelled sources), change no state and are left     *)
(*    out; the dereference of a nil *eventBatch is modelled (a panic).     *)
(***************************************************************************)
EXTENDS Integers, Sequences, FiniteSets, TLC

VARIABLES
    now,            \* time.Now(), in hours since the epoch
    logEventBatch,  \* logPusher.logEventBatch
    sent,           \* the PutLogEvents calls made so far, in order
    added,          \* the events appended to a batch so far, in order
    nextId,         \* number of events given to AddLogEntry so far
    flushes,        \* number of ForceFlush calls made so far
    last,           \* the last call and what it returned
    crashed,        \* the goroutine has panicked
    bpm,            \* a BoundedPusherMap
    accessed,       \* for each key, when Add last inserted it or Get last found it
    lsm,            \* a logStreamManager: streams and logStreamMutex
    goroutines,     \* for each goroutine, where it is in InitStream
    created,        \* the Client.CreateStream calls made so far, in order
    rets,           \* the InitStream calls that have returned
    retryCnt,       \* the retryCnt given to NewPusher
    pusherMap,      \* multiStreamPusher.pusherMap
    heap            \* the logPushers made by NewPusher for goroutines that share a
                    \* multiStreamPusher, by address

vars == <<now, logEventBatch, sent, added, nextId, flushes, last, crashed, bpm, accessed,
          lsm, goroutines, created, rets, retryCnt, pusherMap, heap>>

(* the fields of the logPusher and what is kept of its calls *)
pusherVars == <<logEventBatch, sent, added, nextId, flushes>>

(* the BoundedPusherMap and what is kept of its calls *)
bpmVars == <<bpm, accessed>>

(* the logStreamManager, its callers and what is kept of its calls *)
lsmVars == <<lsm, goroutines, created, rets>>

(* what the logPusher alone does not touch *)
outsidePusher == <<bpmVars, lsmVars, retryCnt, pusherMap, heap>>

(* what the BoundedPusherMap alone does not touch *)
outsideBpm == <<pusherVars, crashed, lsmVars, retryCnt, pusherMap, heap>>

(* what the logStreamManager alone does not touch *)
outsideLsm == <<pusherVars, bpmVars, now, last, retryCnt, pusherMap, heap>>

(* what the multiStreamPusher, its pushers and its logStreamManager do not
   touch *)
outsideMulti == <<logEventBatch, bpmVars, goroutines, rets, now, retryCnt, heap>>

---------------------------------------------------------------------------
(* Bounds of the model *)

MaxEvents == 3          \* AddLogEntry calls in one run
MaxFlushes == 2         \* ForceFlush calls in one run
MaxTicks == 1           \* hours the clock advances in one run
StartTime == 500000     \* the clock at construction (hours since the epoch)
Preload == 9707         \* events already in the batch where SpecLoaded starts
MaxLoadedEvents == 3    \* AddLogEntry calls in one run of SpecLoaded
MaxLimit == 2           \* largest limit a BoundedPusherMap is given
MaxBpmTicks == 3        \* hours the clock advances in one run of SpecBpm
NumGoroutines == 2      \* goroutines calling InitStream
MaxInitCalls == 2       \* InitStream calls of one goroutine in one run
MaxMultiEvents == 3     \* multiStreamPusher.AddLogEntry calls in one run
MaxBpmCalls == 2        \* calls of each goroutine on the shared BoundedPusherMap
MaxSharedCalls == 2     \* AddLogEntry calls of each goroutine on the shared multiStreamPusher
MaxMultiFlushes == 2    \* multiStreamPusher.ForceFlush calls in one run

---------------------------------------------------------------------------
(* Constants of pusher.go *)

Hour == 1
defaultMaxEventPayloadBytes == 1024 * 256
maxRequestEventCount == 10000
perEventHeaderBytes == 26
maxRequestPayloadBytes == 1024 * 1024 * 1
truncatedSuffix == "[Truncated...]"
eventTimestampLimitInPast == 14 * 24 * Hour
evenTimestampLimitInFuture == (-2) * Hour
maxEventPayloadBytes == defaultMaxEventPayloadBytes
batchSpanLimit == 24 * Hour

(* defaultRetryCount of package cwlogs, which NewPusher falls back to *)
defaultRetryCount == 1

NilEntity == [nil |-> TRUE]
NilBatch == [nil |-> TRUE]
NilEvent == [nil |-> TRUE]
NoInput == [nil |-> TRUE]
NilStreamKey == [nil |-> TRUE]

(* The StreamKey the pusher is constructed with. *)
streamKey ==
    [LogGroupName |-> "group", LogStreamName |-> "stream",
     Entity |-> [Attributes |-> "k:v", KeyAttributes |-> "k:v"]]

---------------------------------------------------------------------------
(* Messages *)

NewMessage(length) == [src |-> length, n |-> length, suffix |-> ""]

(* len(message) *)
MsgLen(m) == m.n + Len(m.suffix)

(* message[0:k] *)
MsgPrefix(m, k) == [src |-> m.src, n |-> k, suffix |-> ""]

(* message + s, for a message without suffix *)
MsgConcat(m, s) == [src |-> m.src, n |-> m.n, suffix |-> s]

(* NewEvent, and the GeneratedTime the caller sets; InputLogEvent is what a
   batch keeps of the event. *)
NewEvent(id, timestampMs, length, generated) ==
    [InputLogEvent |-> [id |-> id, Timestamp |-> timestampMs, Message |-> NewMessage(length)],
     GeneratedTime |-> generated]

eventPayloadBytes(logEvent) == MsgLen(logEvent.InputLogEvent.Message) + perEventHeaderBytes

---------------------------------------------------------------------------
(* Event.Validate: the event after validation and the error returned *)

(* Validate without the truncation *)
Truncate_Nothing(logEvent) == logEvent

(* Truncate, cutting at the maximum without leaving room for the header *)
Truncate_IgnoresHeader(logEvent) ==
    IF eventPayloadBytes(logEvent) > maxEventPayloadBytes
    THEN [logEvent EXCEPT !.InputLogEvent.Message =
            MsgConcat(MsgPrefix(logEvent.InputLogEvent.Message,
                        maxEventPayloadBytes - Len(truncatedSuffix)),
                      truncatedSuffix)]
    ELSE logEvent

Truncate(logEvent) ==
    IF eventPayloadBytes(logEvent) > maxEventPayloadBytes
    THEN [logEvent EXCEPT !.InputLogEvent.Message =
            MsgConcat(MsgPrefix(logEvent.InputLogEvent.Message,
                        maxEventPayloadBytes - perEventHeaderBytes - Len(truncatedSuffix)),
                      truncatedSuffix)]
    ELSE logEvent

(* Validate that leaves a zero timestamp as it is *)
DefaultTimestamp_Nothing(logEvent) == logEvent

(* a zero Timestamp becomes GeneratedTime.UnixNano() / int64(time.Millisecond) *)
DefaultTimestamp(logEvent) ==
    IF logEvent.InputLogEvent.Timestamp = 0
    THEN [logEvent EXCEPT !.InputLogEvent.Timestamp = logEvent.GeneratedTime]
    ELSE logEvent

(* TimestampOutOfRange, rejecting an event that is exactly 14 days old *)
TimestampOutOfRange_Inclusive(duration) ==
    duration >= eventTimestampLimitInPast \/ duration < evenTimestampLimitInFuture

TimestampOutOfRange(duration) ==
    duration > eventTimestampLimitInPast \/ duration < evenTimestampLimitInFuture

ErrEmpty == "empty log event message"
ErrTimestamp == "the log entry's timestamp is older than 14 days or more than 2 hours in the future"

Validate(logEvent, currentTime) ==
    LET e == DefaultTimestamp(Truncate(logEvent))
    IN  IF MsgLen(e.InputLogEvent.Message) = 0
        THEN [event |-> e, err |-> ErrEmpty]
        ELSE IF TimestampOutOfRange(currentTime - e.InputLogEvent.Timestamp)
             THEN [event |-> e, err |-> ErrTimestamp]
             ELSE [event |-> e, err |-> "nil"]

---------------------------------------------------------------------------
(* eventBatch *)

newEventBatch(key) ==
    [LogGroupName |-> key.LogGroupName, LogStreamName |-> key.LogStreamName,
     Entity |-> key.Entity, LogEvents |-> <<>>,
     byteTotal |-> 0, minTimestampMs |-> 0, maxTimestampMs |-> 0]

(* cap(batch.putLogEventsInput.LogEvents) *)
Cap(batch) == maxRequestEventCount

exceedsLimit(batch, nextByteTotal) ==
    \/ Len(batch.LogEvents) = Cap(batch)
    \/ batch.byteTotal + nextByteTotal > maxEventPayloadBytes

(* isActive without the test against maxTimestampMs *)
isActive_NoMaxCheck(batch, targetTimestampMs) ==
    IF batch.minTimestampMs = 0 \/ batch.maxTimestampMs = 0
    THEN TRUE
    ELSE IF targetTimestampMs - batch.minTimestampMs > batchSpanLimit
         THEN FALSE
         ELSE TRUE

(* isActive without the test against minTimestampMs *)
isActive_NoMinCheck(batch, targetTimestampMs) ==
    IF batch.minTimestampMs = 0 \/ batch.maxTimestampMs = 0
    THEN TRUE
    ELSE IF batch.maxTimestampMs - targetTimestampMs > batchSpanLimit
         THEN FALSE
         ELSE TRUE

isActive(batch, targetTimestampMs) ==
    IF batch.minTimestampMs = 0 \/ batch.maxTimestampMs = 0
    THEN TRUE
    ELSE IF targetTimestampMs - batch.minTimestampMs > batchSpanLimit
         THEN FALSE
         ELSE IF batch.maxTimestampMs - targetTimestampMs > batchSpanLimit
              THEN FALSE
              ELSE TRUE

(* append that sets minTimestampMs only in a new batch *)
append_KeepsFirstMin(batch, event) ==
    [batch EXCEPT
        !.LogEvents = Append(batch.LogEvents, event.InputLogEvent),
        !.byteTotal = batch.byteTotal + eventPayloadBytes(event),
        !.minTimestampMs =
            IF batch.minTimestampMs = 0
            THEN event.InputLogEvent.Timestamp ELSE batch.minTimestampMs,
        !.maxTimestampMs =
            IF batch.maxTimestampMs = 0 \/ batch.maxTimestampMs < event.InputLogEvent.Timestamp
            THEN event.InputLogEvent.Timestamp ELSE batch.maxTimestampMs]

append(batch, event) ==
    [batch EXCEPT
        !.LogEvents = Append(batch.LogEvents, event.InputLogEvent),
        !.byteTotal = batch.byteTotal + eventPayloadBytes(event),
        !.minTimestampMs =
            IF batch.minTimestampMs = 0 \/ batch.minTimestampMs > event.InputLogEvent.Timestamp
            THEN event.InputLogEvent.Timestamp ELSE batch.minTimestampMs,
        !.maxTimestampMs =
            IF batch.maxTimestampMs = 0 \/ batch.maxTimestampMs < event.InputLogEvent.Timestamp
            THEN event.InputLogEvent.Timestamp ELSE batch.maxTimestampMs]

(* Less with <= for < *)
Less_OrEqual(a, b) == a.Timestamp <= b.Timestamp

(* ByTimestamp.Less *)
Less(a, b) == a.Timestamp < b.Timestamp

(* Insert e into the sorted sequence s behind every element that is not
   greater than it: the step of a stable insertion sort. *)
RECURSIVE InsertStable(_, _)
InsertStable(s, e) ==
    IF s = <<>> THEN <<e>>
    ELSE IF Less(e, s[Len(s)])
         THEN Append(InsertStable(SubSeq(s, 1, Len(s) - 1), e), s[Len(s)])
         ELSE Append(s, e)

RECURSIVE InsertionSort(_)
InsertionSort(events) ==
    IF events = <<>> THEN <<>>
    ELSE InsertStable(InsertionSort(SubSeq(events, 1, Len(events) - 1)), events[Len(events)])

(* sort.Stable(ByTimestamp(events)): a stable insertion sort, which moves
   nothing when no element is less than its predecessor. *)
StableSort(events) ==
    IF \A i \in 1..(Len(events) - 1) : ~Less(events[i + 1], events[i])
    THEN events
    ELSE InsertionSort(events)

sortLogEvents(batch) == [batch EXCEPT !.LogEvents = StableSort(batch.LogEvents)]

---------------------------------------------------------------------------
(* logPusher *)

(* newLogPusher sets logGroupName, logStreamName and logEventBatch; the
   entity field is never assigned and stays nil. *)
newLogPusher(key) ==
    [logGroupName |-> key.LogGroupName,
     logStreamName |-> key.LogStreamName,
     entity |-> NilEntity,
     retryCnt |-> 0,
     logEventBatch |-> newEventBatch(key)]

(* NewPusher that also takes a retryCnt of 0 *)
NewPusher_TakesZero(key, n) ==
    [newLogPusher(key) EXCEPT !.retryCnt = IF n >= 0 THEN n ELSE defaultRetryCount]

(* NewPusher(streamKey, retryCnt, ...) *)
NewPusher(key, n) ==
    [newLogPusher(key) EXCEPT !.retryCnt = IF n > 0 THEN n ELSE defaultRetryCount]

(* the StreamKey addLogEvent and renewEventBatch build for a new batch *)
pusherKey(p) == [LogGroupName |-> p.logGroupName,
                 LogStreamName |-> p.logStreamName,
                 Entity |-> p.entity]

(* addLogEvent that, on a rollover, returns a new batch with the event and
   keeps the current batch *)
addLogEvent_SendsNewEvent(p, logEvent) ==
    IF exceedsLimit(p.logEventBatch, eventPayloadBytes(logEvent))
          \/ ~isActive(p.logEventBatch, logEvent.InputLogEvent.Timestamp)
    THEN [prevBatch |-> append(newEventBatch(pusherKey(p)), logEvent),
          logEventBatch |-> p.logEventBatch]
    ELSE [prevBatch |-> NilBatch,
          logEventBatch |-> append(p.logEventBatch, logEvent)]

(* addLogEvent that, on a rollover, returns the current batch and goes on
   appending to it *)
addLogEvent_KeepsBatch(p, logEvent) ==
    IF exceedsLimit(p.logEventBatch, eventPayloadBytes(logEvent))
          \/ ~isActive(p.logEventBatch, logEvent.InputLogEvent.Timestamp)
    THEN [prevBatch |-> p.logEventBatch,
          logEventBatch |-> append(p.logEventBatch, logEvent)]
    ELSE [prevBatch |-> NilBatch,
          logEventBatch |-> append(p.logEventBatch, logEvent)]

(* addLogEvent that, on a rollover, leaves the event out of the new batch *)
addLogEvent_DropsOnRollover(p, logEvent) ==
    IF exceedsLimit(p.logEventBatch, eventPayloadBytes(logEvent))
          \/ ~isActive(p.logEventBatch, logEvent.InputLogEvent.Timestamp)
    THEN [prevBatch |-> p.logEventBatch,
          logEventBatch |-> newEventBatch(pusherKey(p))]
    ELSE [prevBatch |-> NilBatch,
          logEventBatch |-> append(p.logEventBatch, logEvent)]

(* addLogEvent: the batch returned and the new current batch *)
addLogEvent(p, logEvent) ==
    IF exceedsLimit(p.logEventBatch, eventPayloadBytes(logEvent))
          \/ ~isActive(p.logEventBatch, logEvent.InputLogEvent.Timestamp)
    THEN [prevBatch |-> p.logEventBatch,
          logEventBatch |-> append(newEventBatch(pusherKey(p)), logEvent)]
    ELSE [prevBatch |-> NilBatch,
          logEventBatch |-> append(p.logEventBatch, logEvent)]

(* renewEventBatch that returns the batch and keeps it as the current one *)
renewEventBatch_KeepsBatch(p) ==
    IF Len(p.logEventBatch.LogEvents) > 0
    THEN [prevBatch |-> p.logEventBatch, logEventBatch |-> p.logEventBatch]
    ELSE [prevBatch |-> NilBatch, logEventBatch |-> p.logEventBatch]

(* renewEventBatch that returns the current batch also when it is empty *)
renewEventBatch_AlsoEmpty(p) ==
    [prevBatch |-> p.logEventBatch, logEventBatch |-> newEventBatch(pusherKey(p))]

(* renewEventBatch: the batch returned and the new current batch *)
renewEventBatch(p) ==
    IF Len(p.logEventBatch.LogEvents) > 0
    THEN [prevBatch |-> p.logEventBatch, logEventBatch |-> newEventBatch(pusherKey(p))]
    ELSE [prevBatch |-> NilBatch, logEventBatch |-> p.logEventBatch]

(* Entity.GoString, which newEventBatch, renewEventBatch, ForceFlush and
   pushEventBatch call for their log lines, also on a nil *Entity.  Its source
   is not among the modelled files; the log statements are taken as having no
   effect, so it returns for every receiver. *)
GoStringPanics(entity) == FALSE

(* pushEventBatch that returns nil whatever the client answers *)
pushEventBatch_SwallowsError(p, req, err) ==
    [input |-> sortLogEvents(req), retryCnt |-> p.retryCnt, err |-> err, ret |-> "nil"]

(* pushEventBatch: the PutLogEvents call it makes (input), the client's
   answer err, and what pushEventBatch returns (ret). *)
pushEventBatch(p, req, err) ==
    [input |-> sortLogEvents(req), retryCnt |-> p.retryCnt, err |-> err, ret |-> err]

PutResults == {"nil", "PutLogEvents failed"}

(* logPusher.AddLogEntry(logEvent) at time t, the client answering putErr to
   the PutLogEvents call, if one is made: the event after Validate, the new
   current batch, the PutLogEvents calls made (none or one), whether the
   event was appended, and what the method returns ("panic" if it does not
   return). *)
logPusher_AddLogEntry(p, logEvent, t, putErr) ==
    LET v == Validate(logEvent, t)
        r == addLogEvent(p, v.event)
        put == pushEventBatch(p, r.prevBatch, putErr)
    IN  IF v.err # "nil"
        THEN [event |-> v.event, logEventBatch |-> p.logEventBatch, puts |-> <<>>,
              appended |-> FALSE, ret |-> v.err]
        ELSE IF r.prevBatch = NilBatch
             THEN [event |-> v.event, logEventBatch |-> r.logEventBatch, puts |-> <<>>,
                   appended |-> TRUE, ret |-> "nil"]
             ELSE IF GoStringPanics(pusherKey(p).Entity)
                  THEN [event |-> v.event, logEventBatch |-> p.logEventBatch, puts |-> <<>>,
                        appended |-> FALSE, ret |-> "panic"]
                  ELSE [event |-> v.event, logEventBatch |-> r.logEventBatch, puts |-> <<put>>,
                        appended |-> TRUE, ret |-> put.ret]

(* logPusher.ForceFlush: renewEventBatch returns nil for an empty batch and
   the next statement reads prevBatch.putLogEventsInput, a nil dereference,
   before the test prevBatch != nil is reached. *)
logPusher_ForceFlush(p, putErr) ==
    LET r == renewEventBatch(p)
        put == pushEventBatch(p, r.prevBatch, putErr)
    IN  IF r.prevBatch = NilBatch \/ GoStringPanics(p.entity)
        THEN [logEventBatch |-> p.logEventBatch, puts |-> <<>>, ret |-> "panic"]
        ELSE [logEventBatch |-> r.logEventBatch, puts |-> <<put>>, ret |-> put.ret]

(* the logPusher NewPusher(streamKey, retryCnt, ...) returns *)
pusher == NewPusher(streamKey, retryCnt)

(* the logPusher of this model: pusher with its current batch *)
thePusher == [pusher EXCEPT !.logEventBatch = logEventBatch]

(* what a call leaves in last: the batch as the call found it, in figures *)
Called(op, ret, puts, in, event, before) ==
    [op |-> op, ret |-> ret, puts |-> puts, in |-> in, event |-> event,
     beforeLen |-> Len(before.LogEvents), beforeBytes |-> before.byteTotal,
     beforeMin |-> before.minTimestampMs, beforeMax |-> before.maxTimestampMs]

---------------------------------------------------------------------------
(* StreamKey and logStreamManager *)

(* StreamKey.Hash: "%s|%s|%s|%s" of the two names and of mapToString of the
   entity's Attributes and KeyAttributes, which are "" for a nil Entity and
   for a nil map.  An Entity that is not nil is kept as the two strings
   mapToString makes of its maps. *)
Hash(sk) ==
    LET attributes == IF sk.Entity = NilEntity THEN "" ELSE sk.Entity.Attributes
        keyAttributes == IF sk.Entity = NilEntity THEN "" ELSE sk.Entity.KeyAttributes
    IN  sk.LogGroupName \o "|" \o sk.LogStreamName \o "|" \o attributes \o "|" \o keyAttributes

(* the stream keys of the events given to the multiStreamPusher and of the
   InitStream calls *)
StreamKeys ==
    {[LogGroupName |-> "group", LogStreamName |-> "stream1", Entity |-> NilEntity],
     [LogGroupName |-> "group", LogStreamName |-> "stream2", Entity |-> NilEntity]}

NewLogStreamManager == [streams |-> {}, logStreamMutex |-> 0]

(* what Client.CreateStream can return *)
CreateResults == {"nil", "CreateStream failed"}

(* _, ok := lsm.streams[hash] of line 455, made without the mutex *)
FirstCheck(streams, hash) == hash \in streams

(* the second check, finding no stream whatever the map holds *)
SecondCheck_NeverFinds(streams, hash) == FALSE

(* _, ok := lsm.streams[hash] of line 459, made holding the mutex *)
SecondCheck(streams, hash) == hash \in streams

(* lsm.streams[hash] = true, which follows CreateStream whatever it returned *)
MarkStream(streams, hash, err) == streams \cup {hash}

(* InitStream called by one goroutine alone, CreateStream answering
   createErr if it is called: the streams it leaves, the CreateStream calls
   it makes and the error it returns *)
InitStream(streams, sk, createErr) ==
    IF ~FirstCheck(streams, Hash(sk)) /\ ~SecondCheck(streams, Hash(sk))
    THEN [streams |-> MarkStream(streams, Hash(sk), createErr),
          calls |-> <<[hash |-> Hash(sk), err |-> createErr]>>,
          err |-> createErr]
    ELSE [streams |-> streams, calls |-> <<>>, err |-> "nil"]

(* The goroutines calling InitStream, and where each of them is:
     "idle"     not in InitStream
     "check1"   before the check of line 455
     "lock"     before logStreamMutex.Lock()
     "check2"   holding the mutex, before the check of line 459
     "create"   before Client.CreateStream
     "assign"   before lsm.streams[hash] = true
     "writing"  in the map assignment
   A map assignment is not atomic: a read of the map by another goroutine
   while one is "writing" is a data race.  The Go runtime may stop the
   program for it ("concurrent map read and map write"); otherwise the read
   finds what the map held before or, for the key being written, what it
   holds afterwards. *)
Goroutines == 1..NumGoroutines

IdleGoroutine == [pc |-> "idle", sk |-> "nil", err |-> "nil", calls |-> 0]

(* some goroutine is in the map assignment *)
MapBeingWritten == \E g \in Goroutines : goroutines[g].pc = "writing"

(* the hashes a read that races with a map assignment can find *)
RacyStreams == lsm.streams \cup {Hash(goroutines[g].sk) : g \in {h \in Goroutines : goroutines[h].pc = "writing"}}

(* what a call of InitStream that has returned leaves in rets: the key,
   what it returned, whether it called CreateStream and whether it took the
   mutex *)
Returned(g, ret, network, locked) ==
    [hash |-> Hash(goroutines[g].sk), ret |-> ret, network |-> network, locked |-> locked]

(* the goroutine after its call has returned *)
BackToIdle(g) == [goroutines EXCEPT ![g] = [IdleGoroutine EXCEPT !.calls = goroutines[g].calls]]

---------------------------------------------------------------------------
(* BoundedPusherMap of exporter/awsemfexporter/bounded_pusher_map.go.  A Go
   map is a function whose domain is the set of its keys. *)

pusherMapLimit == 1000

EmptyMap == [k \in {} |-> "nil"]

(* m[k] = v *)
MapPut(m, k, v) == [x \in DOMAIN m \cup {k} |-> IF x = k THEN v ELSE m[x]]

(* delete(m, k) for every k of keys *)
MapDelete(m, keys) == [x \in DOMAIN m \ keys |-> m[x]]

NewBoundedPusherMap ==
    [pusherMap |-> EmptyMap, limit |-> pusherMapLimit, stalePusherTracker |-> EmptyMap]

ErrTooManyPushers == "too many emf pushers being created. Dropping the request"

(* EvictStalePushers that sweeps the tracker whatever the size of the map *)
EvictStalePushers_AlwaysSweeps(b, t) ==
    LET stale == {key \in DOMAIN b.stalePusherTracker :
                     t - b.stalePusherTracker[key] > Hour}
        evicted == [b EXCEPT !.pusherMap = MapDelete(b.pusherMap, stale),
                             !.stalePusherTracker = MapDelete(b.stalePusherTracker, stale)]
    IN  [bpm |-> evicted,
         err |-> IF Cardinality(DOMAIN evicted.pusherMap) >= b.limit
                 THEN ErrTooManyPushers ELSE "nil",
         calls |-> {}]

(* EvictStalePushers that never reports that the map is full *)
EvictStalePushers_NeverFails(b, t) ==
    IF Cardinality(DOMAIN b.pusherMap) < b.limit
    THEN [bpm |-> b, err |-> "nil", calls |-> {}]
    ELSE LET stale == {key \in DOMAIN b.stalePusherTracker :
                          t - b.stalePusherTracker[key] > Hour}
         IN  [bpm |-> [b EXCEPT !.pusherMap = MapDelete(b.pusherMap, stale),
                                !.stalePusherTracker = MapDelete(b.stalePusherTracker, stale)],
              err |-> "nil", calls |-> {}]

(* EvictStalePushers that also evicts an entry used exactly one hour ago *)
EvictStalePushers_Inclusive(b, t) ==
    IF Cardinality(DOMAIN b.pusherMap) < b.limit
    THEN [bpm |-> b, err |-> "nil", calls |-> {}]
    ELSE LET stale == {key \in DOMAIN b.stalePusherTracker :
                          t - b.stalePusherTracker[key] >= Hour}
             evicted == [b EXCEPT !.pusherMap = MapDelete(b.pusherMap, stale),
                                  !.stalePusherTracker = MapDelete(b.stalePusherTracker, stale)]
         IN  [bpm |-> evicted,
              err |-> IF Cardinality(DOMAIN evicted.pusherMap) >= b.limit
                      THEN ErrTooManyPushers ELSE "nil",
              calls |-> {}]

(* EvictStalePushers that leaves the evicted keys in stalePusherTracker *)
EvictStalePushers_KeepsTracker(b, t) ==
    IF Cardinality(DOMAIN b.pusherMap) < b.limit
    THEN [bpm |-> b, err |-> "nil", calls |-> {}]
    ELSE LET stale == {key \in DOMAIN b.stalePusherTracker :
                          t - b.stalePusherTracker[key] > Hour}
             evicted == [b EXCEPT !.pusherMap = MapDelete(b.pusherMap, stale)]
         IN  [bpm |-> evicted,
              err |-> IF Cardinality(DOMAIN evicted.pusherMap) >= b.limit
                      THEN ErrTooManyPushers ELSE "nil",
              calls |-> {}]

(* EvictStalePushers that calls ForceFlush on every pusher it evicts *)
EvictStalePushers_FlushesEvicted(b, t) ==
    IF Cardinality(DOMAIN b.pusherMap) < b.limit
    THEN [bpm |-> b, err |-> "nil", calls |-> {}]
    ELSE LET stale == {key \in DOMAIN b.stalePusherTracker :
                          t - b.stalePusherTracker[key] > Hour}
             evicted == [b EXCEPT !.pusherMap = MapDelete(b.pusherMap, stale),
                                  !.stalePusherTracker = MapDelete(b.stalePusherTracker, stale)]
         IN  [bpm |-> evicted,
              err |-> IF Cardinality(DOMAIN evicted.pusherMap) >= b.limit
                      THEN ErrTooManyPushers ELSE "nil",
              calls |-> {[pusher |-> b.pusherMap[key], method |-> "ForceFlush"] :
                            key \in stale \cap DOMAIN b.pusherMap}]

(* EvictStalePushers at time t: the map it leaves, the error it returns and
   the calls it makes on pushers of the map, of which there is none *)
EvictStalePushers(b, t) ==
    IF Cardinality(DOMAIN b.pusherMap) < b.limit
    THEN [bpm |-> b, err |-> "nil", calls |-> {}]
    ELSE LET stale == {key \in DOMAIN b.stalePusherTracker :
                          t - b.stalePusherTracker[key] > Hour}
             evicted == [b EXCEPT !.pusherMap = MapDelete(b.pusherMap, stale),
                                  !.stalePusherTracker = MapDelete(b.stalePusherTracker, stale)]
         IN  [bpm |-> evicted,
              err |-> IF Cardinality(DOMAIN evicted.pusherMap) >= b.limit
                      THEN ErrTooManyPushers ELSE "nil",
              calls |-> {}]

(* Add at time t: the map it leaves, the error it logs, and the calls made
   on pushers of the map *)
Add(b, key, p, t) ==
    LET e == EvictStalePushers(b, t)
    IN  IF e.err # "nil"
        THEN e
        ELSE [bpm |-> [e.bpm EXCEPT !.pusherMap = MapPut(e.bpm.pusherMap, key, p),
                                    !.stalePusherTracker = MapPut(e.bpm.stalePusherTracker, key, t)],
              err |-> "nil", calls |-> e.calls]

(* Get that sets the time of the key in stalePusherTracker whether or not
   the key is in pusherMap *)
Get_AlwaysTracks(b, key, t) ==
    IF key \in DOMAIN b.pusherMap
    THEN [bpm |-> [b EXCEPT !.stalePusherTracker = MapPut(b.stalePusherTracker, key, t)],
          pusher |-> b.pusherMap[key], ok |-> TRUE]
    ELSE [bpm |-> [b EXCEPT !.stalePusherTracker = MapPut(b.stalePusherTracker, key, t)],
          pusher |-> "nil", ok |-> FALSE]

(* Get that leaves stalePusherTracker as it is *)
Get_NoRefresh(b, key, t) ==
    IF key \in DOMAIN b.pusherMap
    THEN [bpm |-> b, pusher |-> b.pusherMap[key], ok |-> TRUE]
    ELSE [bpm |-> b, pusher |-> "nil", ok |-> FALSE]

(* Get at time t: the map it leaves and the two values it returns *)
Get(b, key, t) ==
    IF key \in DOMAIN b.pusherMap
    THEN [bpm |-> [b EXCEPT !.stalePusherTracker = MapPut(b.stalePusherTracker, key, t)],
          pusher |-> b.pusherMap[key], ok |-> TRUE]
    ELSE [bpm |-> b, pusher |-> "nil", ok |-> FALSE]

(* ListAllPushers, the range over the map visiting the keys in order *)
ListAllPushers(b, order) == [i \in 1..Len(order) |-> b.pusherMap[order[i]]]

(* the orders in which a range over m can visit its keys *)
RangeOrders(m) ==
    {order \in [1..Cardinality(DOMAIN m) -> DOMAIN m] :
        \A i, j \in 1..Cardinality(DOMAIN m) : i # j => order[i] # order[j]}

(* the keys and pushers given to the BoundedPusherMap *)
Keys == {"key1", "key2", "key3"}
Pushers == {"pusher1", "pusher2"}

(* what a call of the BoundedPusherMap leaves in last *)
BpmCalled(op, key, p, ret, ok, err, calls, before) ==
    [op |-> op, key |-> key, pusher |-> p, ret |-> ret, ok |-> ok, err |-> err,
     calls |-> calls, before |-> before]

(* the BoundedPusherMap of a run that does not use it *)
BpmUnused == bpm = NewBoundedPusherMap /\ accessed = EmptyMap

(* the multiStreamPusher of a run that does not use it *)
MultiUnused == pusherMap = EmptyMap /\ heap = <<>>

(* the logStreamManager of a run that does not use it *)
LsmUnused ==
    /\ lsm = NewLogStreamManager
    /\ goroutines = <<>>
    /\ created = <<>>
    /\ rets = {}

(* the logPusher of a run that does not use it *)
PusherUnused ==
    /\ logEventBatch = newEventBatch(streamKey)
    /\ sent = <<>>
    /\ added = <<>>
    /\ nextId = 0
    /\ flushes = 0
    /\ crashed = FALSE
    /\ retryCnt = 0

(* NewBoundedPusherMap, and the limit the owner then sets *)
InitBpm ==
    /\ now = StartTime
    /\ \E limit \in 1..MaxLimit : bpm = [NewBoundedPusherMap EXCEPT !.limit = limit]
    /\ accessed = EmptyMap
    /\ last = BpmCalled("NewBoundedPusherMap", "nil", "nil", "nil", FALSE, "nil", {}, bpm)
    /\ PusherUnused
    /\ LsmUnused
    /\ MultiUnused

(* time passes *)
TickBpm ==
    /\ now < StartTime + MaxBpmTicks * Hour
    /\ now' = now + Hour
    /\ last' = BpmCalled("Tick", "nil", "nil", "nil", FALSE, "nil", {}, bpm)
    /\ UNCHANGED bpmVars
    /\ UNCHANGED outsideBpm

CallAdd ==
    /\ \E key \in Keys, p \in Pushers :
        LET r == Add(bpm, key, p, now)
        IN  /\ bpm' = r.bpm
            /\ accessed' = IF r.err = "nil" THEN MapPut(accessed, key, now) ELSE accessed
            /\ last' = BpmCalled("Add", key, p, "nil", FALSE, r.err, r.calls, bpm)
    /\ UNCHANGED now
    /\ UNCHANGED outsideBpm

CallGet ==
    /\ \E key \in Keys :
        LET r == Get(bpm, key, now)
        IN  /\ bpm' = r.bpm
            /\ accessed' = IF r.ok THEN MapPut(accessed, key, now) ELSE accessed
            /\ last' = BpmCalled("Get", key, "nil", r.pusher, r.ok, "nil", {}, bpm)
    /\ UNCHANGED now
    /\ UNCHANGED outsideBpm

CallEvictStalePushers ==
    /\ LET r == EvictStalePushers(bpm, now)
       IN  /\ bpm' = r.bpm
           /\ last' = BpmCalled("EvictStalePushers", "nil", "nil", "nil", FALSE, r.err, r.calls, bpm)
    /\ UNCHANGED <<now, accessed>>
    /\ UNCHANGED outsideBpm

CallListAllPushers ==
    /\ \E order \in RangeOrders(bpm.pusherMap) :
          last' = BpmCalled("ListAllPushers", "nil", "nil", ListAllPushers(bpm, order), FALSE, "nil", {}, bpm)
    /\ UNCHANGED <<now, bpm, accessed>>
    /\ UNCHANGED outsideBpm

NextBpm == TickBpm \/ CallAdd \/ CallGet \/ CallEvictStalePushers \/ CallListAllPushers

SpecBpm == InitBpm /\ [][NextBpm]_vars

---------------------------------------------------------------------------
(* One BoundedPusherMap shared by goroutines that call Add and Get.  The
   struct has no mutex, so the calls interleave between their statements. *)

(* what these goroutines do not touch *)
outsideBpmCallers == <<pusherVars, lsm, created, rets, retryCnt, pusherMap, heap, last, accessed>>

IdleCaller == [pc |-> "idle", key |-> "nil", pusher |-> "nil", calls |-> 0]

(* the goroutine after its call has returned *)
CallerReturns(g) == [goroutines EXCEPT ![g] = [IdleCaller EXCEPT !.calls = goroutines[g].calls]]

(* the keys of the calls under way in other goroutines *)
KeysInUse(g) == {goroutines[h].key : h \in {x \in Goroutines : x # g /\ goroutines[x].pc # "idle"}}

(* the map accesses of the statement the goroutine is at *)
Accesses(g) ==
    CASE goroutines[g].pc = "evict" ->
            IF Cardinality(DOMAIN bpm.pusherMap) < bpm.limit
            THEN {[map |-> "pusherMap", write |-> FALSE]}
            ELSE {[map |-> "pusherMap", write |-> TRUE],
                  [map |-> "stalePusherTracker", write |-> TRUE]}
      [] goroutines[g].pc = "putPusher" -> {[map |-> "pusherMap", write |-> TRUE]}
      [] goroutines[g].pc = "putTracker" -> {[map |-> "stalePusherTracker", write |-> TRUE]}
      [] goroutines[g].pc = "read" -> {[map |-> "pusherMap", write |-> FALSE]}
      [] goroutines[g].pc = "refresh" -> {[map |-> "stalePusherTracker", write |-> TRUE]}
      [] OTHER -> {}

(* two goroutines are at statements that access the same map, one writing *)
Races(g, h) ==
    /\ g # h
    /\ \E a \in Accesses(g), b \in Accesses(h) : a.map = b.map /\ (a.write \/ b.write)

InitBpmShared ==
    /\ now = StartTime
    /\ \E limit \in 1..MaxLimit : bpm = [NewBoundedPusherMap EXCEPT !.limit = limit]
    /\ accessed = EmptyMap
    /\ last = BpmCalled("NewBoundedPusherMap", "nil", "nil", "nil", FALSE, "nil", {}, bpm)
    /\ goroutines = [g \in Goroutines |-> IdleCaller]
    /\ lsm = NewLogStreamManager
    /\ created = <<>>
    /\ rets = {}
    /\ PusherUnused
    /\ MultiUnused

(* a goroutine calls Add(key, pusher, logger) *)
BeginAdd(g) ==
    /\ ~crashed
    /\ goroutines[g].pc = "idle"
    /\ goroutines[g].calls < MaxBpmCalls
    /\ \E key \in Keys \ KeysInUse(g), p \in Pushers :
          goroutines' = [goroutines EXCEPT ![g] =
                            [pc |-> "evict", key |-> key, pusher |-> p, calls |-> @.calls + 1]]
    /\ UNCHANGED <<bpm, crashed>>
    /\ UNCHANGED <<now, outsideBpmCallers>>

(* err := bpm.EvictStalePushers(), and the return if it fails *)
AddEvicts(g) ==
    /\ ~crashed
    /\ goroutines[g].pc = "evict"
    /\ LET e == EvictStalePushers(bpm, now)
       IN  /\ bpm' = e.bpm
           /\ goroutines' = IF e.err # "nil" THEN CallerReturns(g)
                             ELSE [goroutines EXCEPT ![g].pc = "putPusher"]
    /\ UNCHANGED crashed
    /\ UNCHANGED <<now, outsideBpmCallers>>

(* bpm.pusherMap[key] = pusher *)
AddPutsPusher(g) ==
    /\ ~crashed
    /\ goroutines[g].pc = "putPusher"
    /\ bpm' = [bpm EXCEPT !.pusherMap = MapPut(bpm.pusherMap, goroutines[g].key, goroutines[g].pusher)]
    /\ goroutines' = [goroutines EXCEPT ![g].pc = "putTracker"]
    /\ UNCHANGED crashed
    /\ UNCHANGED <<now, outsideBpmCallers>>

(* bpm.stalePusherTracker[key] = time.Now() *)
AddPutsTracker(g) ==
    /\ ~crashed
    /\ goroutines[g].pc = "putTracker"
    /\ bpm' = [bpm EXCEPT !.stalePusherTracker = MapPut(bpm.stalePusherTracker, goroutines[g].key, now)]
    /\ goroutines' = CallerReturns(g)
    /\ UNCHANGED crashed
    /\ UNCHANGED <<now, outsideBpmCallers>>

(* a goroutine calls Get(key) *)
BeginGet(g) ==
    /\ ~crashed
    /\ goroutines[g].pc = "idle"
    /\ goroutines[g].calls < MaxBpmCalls
    /\ \E key \in Keys \ KeysInUse(g) :
          goroutines' = [goroutines EXCEPT ![g] =
                            [pc |-> "read", key |-> key, pusher |-> "nil", calls |-> @.calls + 1]]
    /\ UNCHANGED <<bpm, crashed>>
    /\ UNCHANGED <<now, outsideBpmCallers>>

(* pusher, ok := bpm.pusherMap[key], and the return if !ok *)
GetReads(g) ==
    /\ ~crashed
    /\ goroutines[g].pc = "read"
    /\ goroutines' = IF goroutines[g].key \in DOMAIN bpm.pusherMap
                      THEN [goroutines EXCEPT ![g].pc = "refresh",
                                               ![g].pusher = bpm.pusherMap[goroutines[g].key]]
                      ELSE CallerReturns(g)
    /\ UNCHANGED <<bpm, crashed>>
    /\ UNCHANGED <<now, outsideBpmCallers>>

(* bpm.stalePusherTracker[key] = time.Now(), and the return *)
GetRefreshes(g) ==
    /\ ~crashed
    /\ goroutines[g].pc = "refresh"
    /\ bpm' = [bpm EXCEPT !.stalePusherTracker = MapPut(bpm.stalePusherTracker, goroutines[g].key, now)]
    /\ goroutines' = CallerReturns(g)
    /\ UNCHANGED crashed
    /\ UNCHANGED <<now, outsideBpmCallers>>

(* two goroutines access one map at the same time, one of them writing: the
   runtime can stop the program (fatal error: concurrent map writes, or
   concurrent map read and map write); if it does not, the accesses take
   effect one after the other as the steps above *)
ConcurrentMapAccess(g) ==
    /\ ~crashed
    /\ \E h \in Goroutines : Races(g, h)
    /\ crashed' = TRUE
    /\ UNCHANGED <<bpm, goroutines>>
    /\ UNCHANGED <<now, outsideBpmCallers>>

(* time passes *)
TickBpmShared ==
    /\ ~crashed
    /\ now < StartTime + MaxBpmTicks * Hour
    /\ now' = now + Hour
    /\ UNCHANGED <<bpm, goroutines, crashed>>
    /\ UNCHANGED outsideBpmCallers

NextBpmShared ==
    \/ TickBpmShared
    \/ \E g \in Goroutines :
        \/ BeginAdd(g)
        \/ AddEvicts(g)
        \/ AddPutsPusher(g)
        \/ AddPutsTracker(g)
        \/ BeginGet(g)
        \/ GetReads(g)
        \/ GetRefreshes(g)
        \/ ConcurrentMapAccess(g)

SpecBpmShared == InitBpmShared /\ [][NextBpmShared]_vars

---------------------------------------------------------------------------
(* Goroutines calling InitStream of one logStreamManager *)

InitLsm ==
    /\ lsm = NewLogStreamManager
    /\ goroutines = [g \in Goroutines |-> IdleGoroutine]
    /\ created = <<>>
    /\ rets = {}
    /\ now = StartTime
    /\ last = [op |-> "NewLogStreamManager"]
    /\ PusherUnused
    /\ BpmUnused
    /\ MultiUnused

(* a goroutine calls InitStream(streamKey) *)
CallInitStream(g) ==
    /\ ~crashed
    /\ goroutines[g].pc = "idle"
    /\ goroutines[g].calls < MaxInitCalls
    /\ \E sk \in StreamKeys :
          goroutines' = [goroutines EXCEPT ![g] =
                            [pc |-> "check1", sk |-> sk, err |-> "nil", calls |-> @.calls + 1]]
    /\ UNCHANGED <<lsm, created, rets, crashed>>
    /\ UNCHANGED outsideLsm

(* line 455, no map assignment being under way *)
CheckUnlocked(g) ==
    /\ ~crashed
    /\ goroutines[g].pc = "check1"
    /\ ~MapBeingWritten
    /\ IF FirstCheck(lsm.streams, Hash(goroutines[g].sk))
       THEN /\ rets' = rets \cup {Returned(g, "nil", FALSE, FALSE)}
            /\ goroutines' = BackToIdle(g)
       ELSE /\ rets' = rets
            /\ goroutines' = [goroutines EXCEPT ![g].pc = "lock"]
    /\ UNCHANGED <<lsm, created, crashed>>
    /\ UNCHANGED outsideLsm

(* line 455 during a map assignment of another goroutine: the runtime stops
   the program, or the read finds the key or does not *)
CheckUnlockedRacing(g) ==
    /\ ~crashed
    /\ goroutines[g].pc = "check1"
    /\ MapBeingWritten
    /\ \/ /\ crashed' = TRUE
          /\ UNCHANGED <<goroutines, rets>>
       \/ /\ crashed' = FALSE
          /\ \E ok \in {FirstCheck(lsm.streams, Hash(goroutines[g].sk)),
                          FirstCheck(RacyStreams, Hash(goroutines[g].sk))} :
                IF ok
                THEN /\ rets' = rets \cup {Returned(g, "nil", FALSE, FALSE)}
                     /\ goroutines' = BackToIdle(g)
                ELSE /\ rets' = rets
                     /\ goroutines' = [goroutines EXCEPT ![g].pc = "lock"]
    /\ UNCHANGED <<lsm, created>>
    /\ UNCHANGED outsideLsm

(* lsm.logStreamMutex.Lock() *)
Lock(g) ==
    /\ ~crashed
    /\ goroutines[g].pc = "lock"
    /\ lsm.logStreamMutex = 0
    /\ lsm' = [lsm EXCEPT !.logStreamMutex = g]
    /\ goroutines' = [goroutines EXCEPT ![g].pc = "check2"]
    /\ UNCHANGED <<created, rets, crashed>>
    /\ UNCHANGED outsideLsm

(* line 459; if the stream is there, return nil and the deferred Unlock *)
CheckLocked(g) ==
    /\ ~crashed
    /\ goroutines[g].pc = "check2"
    /\ IF SecondCheck(lsm.streams, Hash(goroutines[g].sk))
       THEN /\ rets' = rets \cup {Returned(g, "nil", FALSE, TRUE)}
            /\ goroutines' = BackToIdle(g)
            /\ lsm' = [lsm EXCEPT !.logStreamMutex = 0]
       ELSE /\ rets' = rets
            /\ goroutines' = [goroutines EXCEPT ![g].pc = "create"]
            /\ lsm' = lsm
    /\ UNCHANGED <<created, crashed>>
    /\ UNCHANGED outsideLsm

(* err := lsm.client.CreateStream(...) *)
CreateStream(g) ==
    /\ ~crashed
    /\ goroutines[g].pc = "create"
    /\ \E err \in CreateResults :
          /\ created' = Append(created, [hash |-> Hash(goroutines[g].sk), err |-> err])
          /\ goroutines' = [goroutines EXCEPT ![g].pc = "assign", ![g].err = err]
    /\ UNCHANGED <<lsm, rets, crashed>>
    /\ UNCHANGED outsideLsm

(* lsm.streams[hash] = true begins *)
BeginAssign(g) ==
    /\ ~crashed
    /\ goroutines[g].pc = "assign"
    /\ goroutines' = [goroutines EXCEPT ![g].pc = "writing"]
    /\ UNCHANGED <<lsm, created, rets, crashed>>
    /\ UNCHANGED outsideLsm

(* lsm.streams[hash] = true ends; return err and the deferred Unlock *)
EndAssign(g) ==
    /\ ~crashed
    /\ goroutines[g].pc = "writing"
    /\ lsm' = [streams |-> MarkStream(lsm.streams, Hash(goroutines[g].sk), goroutines[g].err),
               logStreamMutex |-> 0]
    /\ rets' = rets \cup {Returned(g, goroutines[g].err, TRUE, TRUE)}
    /\ goroutines' = BackToIdle(g)
    /\ UNCHANGED <<created, crashed>>
    /\ UNCHANGED outsideLsm

NextLsm ==
    \E g \in Goroutines :
        \/ CallInitStream(g)
        \/ CheckUnlocked(g)
        \/ CheckUnlockedRacing(g)
        \/ Lock(g)
        \/ CheckLocked(g)
        \/ CreateStream(g)
        \/ BeginAssign(g)
        \/ EndAssign(g)

SpecLsm == InitLsm /\ [][NextLsm]_vars

---------------------------------------------------------------------------
(* Inputs *)

(* The oldest and the newest timestamp Validate accepts at StartTime *)
Oldest == StartTime - 14 * 24 * Hour
Newest == StartTime + 2 * Hour

(* The largest message that is not truncated *)
MaxMessage == maxEventPayloadBytes - perEventHeaderBytes

(* timestampMs and len(message) given to NewEvent, and
   GeneratedTime.UnixNano() / 1e6 as set by the caller *)
In(ts, length, gen) == [ts |-> ts, length |-> length, gen |-> gen]

EventChoices ==
    {In(0, 1, StartTime),                   \* timestamp defaulted, in the window
     In(0, 1, Oldest - 24 * Hour),          \* timestamp defaulted, too old
     In(Oldest - Hour, 1, StartTime),       \* too old
     In(Oldest, 1, StartTime),              \* oldest accepted
     In(Newest - 24 * Hour, 1, StartTime),  \* 24 hours before Newest
     In(Newest, 1, StartTime),              \* newest accepted at StartTime
     In(Newest + Hour, 1, StartTime),       \* too new, unless the clock has advanced
     In(Newest, 0, StartTime),              \* empty message
     In(Newest, MaxMessage, StartTime),     \* largest event that is not truncated
     In(Newest, maxRequestPayloadBytes, StartTime),  \* truncated, longer than a request
     In(Oldest - Hour, MaxMessage + 1, StartTime)}   \* truncated by one byte, too old

LoadedChoices ==
    {In(Newest, 1, StartTime),
     In(Newest, MaxMessage, StartTime)}

---------------------------------------------------------------------------
(* The pusher after NewPusher *)

Init ==
    /\ now = StartTime
    /\ logEventBatch = newEventBatch(streamKey)
    /\ sent = <<>>
    /\ added = <<>>
    /\ nextId = 0
    /\ flushes = 0
    /\ last = Called("NewPusher", "nil", 0, NoInput, NilEvent, newEventBatch(streamKey))
    /\ crashed = FALSE
    /\ retryCnt = 1
    /\ BpmUnused
    /\ LsmUnused
    /\ MultiUnused

(* time passes *)
Tick ==
    /\ ~crashed
    /\ now < StartTime + MaxTicks * Hour
    /\ now' = now + Hour
    /\ UNCHANGED <<logEventBatch, sent, added, nextId, flushes, last, crashed>>
    /\ UNCHANGED outsidePusher

(* logPusher.AddLogEntry(nil) *)
AddNilLogEntry ==
    /\ ~crashed
    /\ nextId < MaxEvents
    /\ nextId' = nextId + 1
    /\ last' = Called("AddLogEntry", "nil", 0, NoInput, NilEvent, logEventBatch)
    /\ UNCHANGED <<now, logEventBatch, sent, added, flushes, crashed>>
    /\ UNCHANGED outsidePusher

(* logPusher.AddLogEntry(logEvent), for an event of choices: Validate, then
   addLogEvent, then pushEventBatch of the batch addLogEvent returned *)
AddLogEntryOf(choices, limit) ==
    /\ ~crashed
    /\ nextId < limit
    /\ \E in \in choices, putErr \in PutResults :
        LET logEvent == NewEvent(nextId + 1, in.ts, in.length, in.gen)
            r == logPusher_AddLogEntry(thePusher, logEvent, now, putErr)
        IN  /\ r.puts = <<>> => putErr = "nil"
            /\ nextId' = nextId + 1
            /\ crashed' = (r.ret = "panic")
            /\ logEventBatch' = r.logEventBatch
            /\ sent' = sent \o r.puts
            /\ added' = IF r.appended THEN Append(added, r.event.InputLogEvent) ELSE added
            /\ last' = Called("AddLogEntry", r.ret, Len(r.puts), in, r.event.InputLogEvent, logEventBatch)
    /\ UNCHANGED <<now, flushes>>
    /\ UNCHANGED outsidePusher

AddLogEntry == AddLogEntryOf(EventChoices, MaxEvents)

(* logPusher.ForceFlush *)
ForceFlush ==
    /\ ~crashed
    /\ flushes < MaxFlushes
    /\ flushes' = flushes + 1
    /\ \E putErr \in PutResults :
        LET r == logPusher_ForceFlush(thePusher, putErr)
        IN  /\ r.puts = <<>> => putErr = "nil"
            /\ crashed' = (r.ret = "panic")
            /\ logEventBatch' = r.logEventBatch
            /\ sent' = sent \o r.puts
            /\ last' = Called("ForceFlush", r.ret, Len(r.puts), NoInput, NilEvent, logEventBatch)
    /\ UNCHANGED <<now, added, nextId>>
    /\ UNCHANGED outsidePusher

Next == Tick \/ AddNilLogEntry \/ AddLogEntry \/ ForceFlush

Spec == Init /\ [][Next]_vars

---------------------------------------------------------------------------
(* The pusher NewPusher returns for each retryCnt of RetryCounts (negative,
   zero, positive), then AddLogEntry and ForceFlush with a client whose
   PutLogEvents succeeds or fails.  Two events 14 days and 2 hours apart, so
   that AddLogEntry hands a batch to pushEventBatch too. *)

MaxRetryCnt == 3
MaxRetryEvents == 3

RetryCounts == -1..MaxRetryCnt

RetryChoices ==
    {In(Oldest, 1, StartTime),
     In(Newest, 1, StartTime)}

InitRetry ==
    /\ now = StartTime
    /\ logEventBatch = newEventBatch(streamKey)
    /\ sent = <<>>
    /\ added = <<>>
    /\ nextId = 0
    /\ flushes = 0
    /\ last = Called("NewPusher", "nil", 0, NoInput, NilEvent, newEventBatch(streamKey))
    /\ crashed = FALSE
    /\ retryCnt \in RetryCounts
    /\ BpmUnused
    /\ LsmUnused
    /\ MultiUnused

AddLogEntryRetry == AddLogEntryOf(RetryChoices, MaxRetryEvents)

NextRetry == AddLogEntryRetry \/ ForceFlush

SpecRetry == InitRetry /\ [][NextRetry]_vars

---------------------------------------------------------------------------
(* The pusher taking events whose timestamp is 0, with a GeneratedTime at the
   Unix epoch, around both ends of the window Validate accepts, and inside
   it, while the clock advances; and an event with a timestamp of its own
   and a GeneratedTime at the epoch. *)

MaxStampEvents == 3

StampChoices ==
    {In(0, 1, 0),
     In(0, 1, Oldest - Hour),
     In(0, 1, Oldest),
     In(0, 1, StartTime),
     In(0, 1, Newest),
     In(0, 1, Newest + Hour),
     In(0, 1, Newest + 2 * Hour),
     In(0, 0, StartTime),
     In(Newest, 1, 0)}

AddLogEntryStamp == AddLogEntryOf(StampChoices, MaxStampEvents)

NextStamp == Tick \/ AddLogEntryStamp

SpecStamp == Init /\ [][NextStamp]_vars

---------------------------------------------------------------------------
(* The pusher after Preload calls of AddLogEntry, each with a new event of
   one byte and the timestamp Newest: Preload * 27 bytes are within
   maxEventPayloadBytes and Preload is below cap(LogEvents), so no call has
   rolled the batch over. *)

LoadedEvent(i) == Validate(NewEvent(i, Newest, 1, StartTime), StartTime).event

LoadedEvents == [i \in 1..Preload |-> LoadedEvent(i).InputLogEvent]

LoadedBatch ==
    [newEventBatch(streamKey) EXCEPT
        !.LogEvents = LoadedEvents,
        !.byteTotal = Preload * eventPayloadBytes(LoadedEvent(1)),
        !.minTimestampMs = Newest,
        !.maxTimestampMs = Newest]

InitLoaded ==
    /\ Preload * eventPayloadBytes(LoadedEvent(1)) <= maxEventPayloadBytes
    /\ Preload < maxRequestEventCount
    /\ now = StartTime
    /\ logEventBatch = LoadedBatch
    /\ sent = <<>>
    /\ added = LoadedEvents
    /\ nextId = Preload
    /\ flushes = 0
    /\ last = Called("AddLogEntry", "nil", 0, In(Newest, 1, StartTime), LoadedEvents[Preload],
                     [LoadedBatch EXCEPT !.LogEvents = SubSeq(LoadedEvents, 1, Preload - 1),
                                         !.byteTotal = (Preload - 1) * eventPayloadBytes(LoadedEvent(1))])
    /\ crashed = FALSE
    /\ retryCnt = 1
    /\ BpmUnused
    /\ LsmUnused
    /\ MultiUnused

AddLogEntryLoaded == AddLogEntryOf(LoadedChoices, Preload + MaxLoadedEvents)

NextLoaded == AddLogEntryLoaded \/ ForceFlush

SpecLoaded == InitLoaded /\ [][NextLoaded]_vars

---------------------------------------------------------------------------
(* multiStreamPusher, with the logStreamManager and the pushers it makes,
   called by one goroutine *)

(* the event with the StreamKey its maker sets *)
WithStreamKey(logEvent, sk) ==
    [InputLogEvent |-> logEvent.InputLogEvent,
     GeneratedTime |-> logEvent.GeneratedTime,
     StreamKey |-> sk]

(* the test of InitStream's error that never finds one *)
InitStreamFailed_Never(err) == FALSE

(* if err := m.logStreamManager.InitStream(...); err != nil *)
InitStreamFailed(err) == err # "nil"

(* multiStreamPusher.AddLogEntry(event) at time t, on the pusher map m and
   the streams of the logStreamManager, CreateStream answering createErr and
   PutLogEvents putErr if they are called *)
multiStreamPusher_AddLogEntry(m, streams, event, t, createErr, putErr) ==
    LET i == InitStream(streams, event.StreamKey, createErr)
        hash == Hash(event.StreamKey)
        withPusher == IF hash \in DOMAIN m THEN m
                      ELSE MapPut(m, hash, NewPusher(event.StreamKey, 1))
        r == logPusher_AddLogEntry(withPusher[hash], event, t, putErr)
    IN  IF InitStreamFailed(i.err)
        THEN [streams |-> i.streams, creates |-> i.calls, initErr |-> i.err,
              pusherMap |-> m, event |-> event, puts |-> <<>>,
              appended |-> FALSE, ret |-> i.err]
        ELSE [streams |-> i.streams, creates |-> i.calls, initErr |-> i.err,
              pusherMap |-> [withPusher EXCEPT ![hash].logEventBatch = r.logEventBatch],
              event |-> r.event, puts |-> r.puts,
              appended |-> r.appended, ret |-> r.ret]

(* errors.Join(errs...): an error that wraps the errors of errs in order *)
Join(errs) == errs

(* The loop of multiStreamPusher.ForceFlush from the i-th key of order on,
   PutLogEvents answering putErrs[hash] to the pusher of hash: the pusher
   map it leaves, the PutLogEvents calls made, the errors collected, the
   pushers whose ForceFlush was called with what each returned, and whether
   one of them panicked, which ends the loop. *)
RECURSIVE FlushFrom(_, _, _, _)
FlushFrom(m, order, putErrs, i) ==
    IF i > Len(order)
    THEN [pusherMap |-> m, puts |-> <<>>, errs |-> <<>>, flushed |-> <<>>, panicked |-> FALSE]
    ELSE LET hash == order[i]
             r == logPusher_ForceFlush(m[hash], putErrs[hash])
             rest == FlushFrom([m EXCEPT ![hash].logEventBatch = r.logEventBatch],
                               order, putErrs, i + 1)
         IN  IF r.ret = "panic"
             THEN [pusherMap |-> m, puts |-> <<>>, errs |-> <<>>,
                   flushed |-> <<[hash |-> hash, ret |-> r.ret]>>, panicked |-> TRUE]
             ELSE [pusherMap |-> rest.pusherMap,
                   puts |-> r.puts \o rest.puts,
                   errs |-> (IF r.ret # "nil" THEN <<r.ret>> ELSE <<>>) \o rest.errs,
                   flushed |-> <<[hash |-> hash, ret |-> r.ret]>> \o rest.flushed,
                   panicked |-> rest.panicked]

(* multiStreamPusher.ForceFlush, the range over the map visiting the keys
   in order.  What it returns is kept as [outcome, joined]: outcome is "nil",
   "error" (then joined is errors.Join(errs...)) or "panic". *)
multiStreamPusher_ForceFlush(m, order, putErrs) ==
    LET r == FlushFrom(m, order, putErrs, 1)
    IN  [pusherMap |-> r.pusherMap, puts |-> r.puts, flushed |-> r.flushed,
         ret |-> IF r.panicked THEN [outcome |-> "panic", joined |-> <<>>]
                 ELSE IF Len(r.errs) # 0 THEN [outcome |-> "error", joined |-> Join(r.errs)]
                      ELSE [outcome |-> "nil", joined |-> <<>>]]

(* the events given to the multiStreamPusher: accepted, accepted but more
   than 24 hours from the first, and refused by Validate *)
MultiChoices ==
    {In(Newest, 1, StartTime),
     In(Oldest, 1, StartTime),
     In(Newest, 0, StartTime)}

(* what a call of the multiStreamPusher leaves in last *)
MultiCalled(op, key, hash, event, initErr, ret, flushed, before) ==
    [op |-> op, key |-> key, hash |-> hash, event |-> event, initErr |-> initErr, ret |-> ret,
     flushed |-> flushed, before |-> before]

(* newMultiStreamPusher with a new logStreamManager *)
InitMulti ==
    /\ now = StartTime
    /\ pusherMap = EmptyMap
    /\ heap = <<>>
    /\ lsm = NewLogStreamManager
    /\ created = <<>>
    /\ sent = <<>>
    /\ added = <<>>
    /\ nextId = 0
    /\ flushes = 0
    /\ crashed = FALSE
    /\ last = MultiCalled("newMultiStreamPusher", NilStreamKey, "nil", NilEvent, "nil", "nil", <<>>, EmptyMap)
    /\ logEventBatch = newEventBatch(streamKey)
    /\ retryCnt = 0
    /\ BpmUnused
    /\ goroutines = <<>>
    /\ rets = {}

(* multiStreamPusher.AddLogEntry of an event with a stream key of keys, as
   long as fewer than limit events were made *)
MultiAddLogEntryOf(keys, limit) ==
    /\ ~crashed
    /\ nextId < limit
    /\ \E in \in MultiChoices, sk \in keys, createErr \in CreateResults, putErr \in PutResults :
        LET event == WithStreamKey(NewEvent(nextId + 1, in.ts, in.length, in.gen), sk)
            r == multiStreamPusher_AddLogEntry(pusherMap, lsm.streams, event, now, createErr, putErr)
        IN  /\ r.creates = <<>> => createErr = "nil"
            /\ r.puts = <<>> => putErr = "nil"
            /\ nextId' = nextId + 1
            /\ lsm' = [lsm EXCEPT !.streams = r.streams]
            /\ created' = created \o r.creates
            /\ pusherMap' = r.pusherMap
            /\ sent' = sent \o r.puts
            /\ added' = IF r.appended THEN Append(added, r.event.InputLogEvent) ELSE added
            /\ crashed' = (r.ret = "panic")
            /\ last' = MultiCalled("AddLogEntry", sk, Hash(sk), r.event.InputLogEvent, r.initErr, r.ret,
                                   <<>>, pusherMap)
    /\ UNCHANGED flushes
    /\ UNCHANGED outsideMulti

MultiAddLogEntry == MultiAddLogEntryOf(StreamKeys, MaxMultiEvents)

MultiForceFlush ==
    /\ ~crashed
    /\ flushes < MaxMultiFlushes
    /\ \E order \in RangeOrders(pusherMap), putErrs \in [DOMAIN pusherMap -> PutResults] :
        LET r == multiStreamPusher_ForceFlush(pusherMap, order, putErrs)
        IN  /\ \A hash \in DOMAIN pusherMap :
                  (\A k \in 1..Len(r.flushed) :
                      r.flushed[k].hash = hash => r.flushed[k].ret \in {"nil", "panic"})
                    => putErrs[hash] = "nil"
            /\ flushes' = flushes + 1
            /\ pusherMap' = r.pusherMap
            /\ sent' = sent \o r.puts
            /\ crashed' = (r.ret.outcome = "panic")
            /\ last' = MultiCalled("ForceFlush", NilStreamKey, "nil", NilEvent, "nil", r.ret, r.flushed, pusherMap)
    /\ UNCHANGED <<lsm, created, added, nextId>>
    /\ UNCHANGED outsideMulti

NextMulti == MultiAddLogEntry \/ MultiForceFlush

SpecMulti == InitMulti /\ [][NextMulti]_vars

---------------------------------------------------------------------------
(* The multiStreamPusher after AddLogEntry of one valid event for each of
   pusherMapLimit stream keys, every CreateStream having succeeded *)

LoadedStreamKey(i) ==
    [LogGroupName |-> "group", LogStreamName |-> "loaded" \o ToString(i), Entity |-> NilEntity]

(* the event of the i-th of these calls *)
LoadedStreamEvent(i) == WithStreamKey(NewEvent(i, Newest, 1, StartTime), LoadedStreamKey(i))

(* the pusher of the i-th stream key after that call *)
LoadedPusher(i) ==
    [NewPusher(LoadedStreamKey(i), 1) EXCEPT
        !.logEventBatch = logPusher_AddLogEntry(NewPusher(LoadedStreamKey(i), 1),
                                                LoadedStreamEvent(i), StartTime, "nil").logEventBatch]

LoadedHashes == {Hash(LoadedStreamKey(i)) : i \in 1..pusherMapLimit}

LoadedPusherMap ==
    [hash \in LoadedHashes |->
        LoadedPusher(CHOOSE i \in 1..pusherMapLimit : Hash(LoadedStreamKey(i)) = hash)]

InitMultiLoaded ==
    /\ now = StartTime
    /\ pusherMap = LoadedPusherMap
    /\ heap = <<>>
    /\ lsm = [streams |-> LoadedHashes, logStreamMutex |-> 0]
    /\ created = [i \in 1..pusherMapLimit |-> [hash |-> Hash(LoadedStreamKey(i)), err |-> "nil"]]
    /\ sent = <<>>
    /\ added = [i \in 1..pusherMapLimit |-> LoadedPusher(i).logEventBatch.LogEvents[1]]
    /\ nextId = pusherMapLimit
    /\ flushes = 0
    /\ crashed = FALSE
    /\ last = MultiCalled("newMultiStreamPusher", NilStreamKey, "nil", NilEvent, "nil", "nil", <<>>, EmptyMap)
    /\ logEventBatch = newEventBatch(streamKey)
    /\ retryCnt = 0
    /\ BpmUnused
    /\ goroutines = <<>>
    /\ rets = {}

MultiAddLogEntryLoaded == MultiAddLogEntryOf(StreamKeys, pusherMapLimit + MaxMultiEvents)

NextMultiLoaded == MultiAddLogEntryLoaded

SpecMultiLoaded == InitMultiLoaded /\ [][NextMultiLoaded]_vars

---------------------------------------------------------------------------
(* One multiStreamPusher shared by goroutines that call AddLogEntry, then one
   ForceFlush.  CreateStream and PutLogEvents always succeed.  pusherMap
   maps a hash to the address of a logPusher in heap.  Neither the
   multiStreamPusher nor the logPusher takes a lock, so the calls interleave
   between the statements of AddLogEntry; InitStream and the pusher's
   AddLogEntry are each taken as one step. *)

(* the events given to the shared multiStreamPusher, all accepted by
   Validate; the second is more than 24 hours from the first *)
SharedChoices ==
    {In(Newest, 1, StartTime),
     In(Oldest, 1, StartTime)}

(* what these goroutines do not touch *)
outsideMultiShared == <<logEventBatch, bpmVars, rets, now, retryCnt>>

IdleWriter == [pc |-> "idle", event |-> NilEvent, pusher |-> 0, calls |-> 0]

(* the goroutine after its call has returned *)
WriterReturns(g) == [goroutines EXCEPT ![g] = [IdleWriter EXCEPT !.calls = goroutines[g].calls]]

(* the goroutine is at the read, or at the assignment, of m.pusherMap *)
AtMapRead(g) == goroutines[g].pc = "lookup"
AtMapWrite(g) == goroutines[g].pc = "store"

(* two goroutines are at accesses of m.pusherMap, one of them writing *)
MapRaces(g, h) ==
    /\ g # h
    /\ \/ AtMapWrite(g) /\ (AtMapRead(h) \/ AtMapWrite(h))
       \/ AtMapWrite(h) /\ AtMapRead(g)

(* the pusher map with the pushers in place of their addresses *)
Deref(m, h) == [hash \in DOMAIN m |-> h[m[hash]].pusher]

InitMultiShared ==
    /\ now = StartTime
    /\ pusherMap = EmptyMap
    /\ heap = <<>>
    /\ lsm = NewLogStreamManager
    /\ created = <<>>
    /\ sent = <<>>
    /\ added = <<>>
    /\ nextId = 0
    /\ flushes = 0
    /\ crashed = FALSE
    /\ last = MultiCalled("newMultiStreamPusher", NilStreamKey, "nil", NilEvent, "nil", "nil", <<>>, EmptyMap)
    /\ logEventBatch = newEventBatch(streamKey)
    /\ retryCnt = 0
    /\ BpmUnused
    /\ goroutines = [g \in Goroutines |-> IdleWriter]
    /\ rets = {}

(* a goroutine calls AddLogEntry(event): m.logStreamManager.InitStream *)
SharedInitStream(g) ==
    /\ ~crashed
    /\ flushes = 0
    /\ goroutines[g].pc = "idle"
    /\ goroutines[g].calls < MaxSharedCalls
    /\ \E in \in SharedChoices, sk \in StreamKeys :
        LET event == WithStreamKey(NewEvent(nextId + 1, in.ts, in.length, in.gen), sk)
            i == InitStream(lsm.streams, sk, "nil")
        IN  /\ nextId' = nextId + 1
            /\ lsm' = [lsm EXCEPT !.streams = i.streams]
            /\ created' = created \o i.calls
            /\ goroutines' = IF InitStreamFailed(i.err) THEN WriterReturns(g)
                              ELSE [goroutines EXCEPT ![g] =
                                      [pc |-> "lookup", event |-> event, pusher |-> 0,
                                       calls |-> @.calls + 1]]
    /\ UNCHANGED <<pusherMap, heap, sent, added, flushes, crashed, last>>
    /\ UNCHANGED outsideMultiShared

(* pusher, ok = m.pusherMap[event.StreamKey.Hash()] *)
SharedLookup(g) ==
    /\ ~crashed
    /\ goroutines[g].pc = "lookup"
    /\ LET hash == Hash(goroutines[g].event.StreamKey)
       IN  goroutines' = IF hash \in DOMAIN pusherMap
                         THEN [goroutines EXCEPT ![g].pc = "add", ![g].pusher = pusherMap[hash]]
                         ELSE [goroutines EXCEPT ![g].pc = "store"]
    /\ UNCHANGED <<pusherMap, heap, lsm, created, sent, added, nextId, flushes, crashed, last>>
    /\ UNCHANGED outsideMultiShared

(* pusher = NewPusher(...); m.pusherMap[event.StreamKey.Hash()] = pusher *)
SharedStore(g) ==
    /\ ~crashed
    /\ goroutines[g].pc = "store"
    /\ LET hash == Hash(goroutines[g].event.StreamKey)
       IN  /\ heap' = Append(heap, [hash |-> hash,
                                     pusher |-> NewPusher(goroutines[g].event.StreamKey, 1)])
           /\ pusherMap' = MapPut(pusherMap, hash, Len(heap) + 1)
           /\ goroutines' = [goroutines EXCEPT ![g].pc = "add", ![g].pusher = Len(heap) + 1]
    /\ UNCHANGED <<lsm, created, sent, added, nextId, flushes, crashed, last>>
    /\ UNCHANGED outsideMultiShared

(* return pusher.AddLogEntry(event) *)
SharedPusherAdd(g) ==
    /\ ~crashed
    /\ goroutines[g].pc = "add"
    /\ LET r == logPusher_AddLogEntry(heap[goroutines[g].pusher].pusher, goroutines[g].event,
                                      now, "nil")
       IN  /\ heap' = [heap EXCEPT ![goroutines[g].pusher].pusher.logEventBatch = r.logEventBatch]
           /\ sent' = sent \o r.puts
           /\ added' = IF r.appended THEN Append(added, r.event.InputLogEvent) ELSE added
           /\ crashed' = (r.ret = "panic")
    /\ goroutines' = WriterReturns(g)
    /\ UNCHANGED <<pusherMap, lsm, created, nextId, flushes, last>>
    /\ UNCHANGED outsideMultiShared

(* pusher.AddLogEntry(event) while another goroutine is in AddLogEntry of the
   same logPusher: both append to the batch they read from p.logEventBatch,
   and the append of this goroutine is overwritten by the other's *)
SharedPusherAddRacing(g) ==
    /\ ~crashed
    /\ goroutines[g].pc = "add"
    /\ \E h \in Goroutines :
          h # g /\ goroutines[h].pc = "add" /\ goroutines[h].pusher = goroutines[g].pusher
    /\ added' = Append(added, Validate(goroutines[g].event, now).event.InputLogEvent)
    /\ goroutines' = WriterReturns(g)
    /\ UNCHANGED <<pusherMap, heap, lsm, created, sent, nextId, flushes, crashed, last>>
    /\ UNCHANGED outsideMultiShared

(* two goroutines access m.pusherMap at the same time, one of them writing:
   the runtime can stop the program; if it does not, the accesses take
   effect one after the other as the steps above *)
SharedMapRace(g) ==
    /\ ~crashed
    /\ \E h \in Goroutines : MapRaces(g, h)
    /\ crashed' = TRUE
    /\ UNCHANGED <<pusherMap, heap, goroutines, lsm, created, sent, added, nextId, flushes, last>>
    /\ UNCHANGED outsideMultiShared

(* the ForceFlush that follows when every AddLogEntry has returned *)
SharedForceFlush ==
    /\ ~crashed
    /\ flushes = 0
    /\ nextId > 0
    /\ \A g \in Goroutines : goroutines[g].pc = "idle"
    /\ \E order \in RangeOrders(pusherMap) :
        LET m == Deref(pusherMap, heap)
            r == multiStreamPusher_ForceFlush(m, order, [hash \in DOMAIN m |-> "nil"])
        IN  /\ flushes' = 1
            /\ heap' = [a \in 1..Len(heap) |->
                            IF \E hash \in DOMAIN pusherMap : pusherMap[hash] = a
                            THEN [heap[a] EXCEPT !.pusher = r.pusherMap[heap[a].hash]]
                            ELSE heap[a]]
            /\ sent' = sent \o r.puts
            /\ crashed' = (r.ret.outcome = "panic")
            /\ last' = MultiCalled("ForceFlush", NilStreamKey, "nil", NilEvent, "nil", r.ret, r.flushed, m)
    /\ UNCHANGED <<pusherMap, goroutines, lsm, created, added, nextId>>
    /\ UNCHANGED outsideMultiShared

NextMultiShared ==
    \/ SharedForceFlush
    \/ \E g \in Goroutines :
        \/ SharedInitStream(g)
        \/ SharedLookup(g)
        \/ SharedStore(g)
        \/ SharedPusherAdd(g)
        \/ SharedPusherAddRacing(g)
        \/ SharedMapRace(g)

SpecMultiShared == InitMultiShared /\ [][NextMultiShared]_vars

---------------------------------------------------------------------------
(* StreamKey.Hash applied to pairs of stream keys *)

(* Names as a caller can give them: Go strings, with or without the
   character '|' *)
GroupNames == {"g", "g|s"}

StreamNames == {"s", "t", "s|t"}

(* An Entity is nil, or has nil maps (both strings empty), or has Attributes
   or KeyAttributes that mapToString turns into a string that is not empty *)
Entities ==
    {NilEntity,
     [Attributes |-> "", KeyAttributes |-> ""],
     [Attributes |-> "k:v", KeyAttributes |-> ""],
     [Attributes |-> "", KeyAttributes |-> "k:v"]}

HashKeys ==
    {[LogGroupName |-> g, LogStreamName |-> s, Entity |-> e] :
        g \in GroupNames, s \in StreamNames, e \in Entities}

(* what two calls of Hash leave in last *)
Hashed(a, b) == [op |-> "Hash", a |-> a, b |-> b, hashA |-> Hash(a), hashB |-> Hash(b)]

InitHash ==
    /\ now = StartTime
    /\ last = [op |-> "none"]
    /\ PusherUnused
    /\ BpmUnused
    /\ LsmUnused
    /\ MultiUnused

(* a.Hash() and b.Hash() *)
CallHash ==
    /\ \E a, b \in HashKeys : last' = Hashed(a, b)
    /\ UNCHANGED <<now, crashed>>
    /\ UNCHANGED <<pusherVars, bpmVars, lsmVars, retryCnt, pusherMap, heap>>

NextHash == CallHash

SpecHash == InitHash /\ [][NextHash]_vars

---------------------------------------------------------------------------
(* The multiStreamPusher given events of streams whose names can hold the
   character '|' *)

NamedStreamKeys ==
    {[LogGroupName |-> "g", LogStreamName |-> "s", Entity |-> NilEntity],
     [LogGroupName |-> "g", LogStreamName |-> "s|t", Entity |-> NilEntity],
     [LogGroupName |-> "g|s", LogStreamName |-> "t", Entity |-> NilEntity]}

MultiAddLogEntryNamed == MultiAddLogEntryOf(NamedStreamKeys, MaxMultiEvents)

NextMultiNamed == MultiAddLogEntryNamed

SpecMultiNamed == InitMulti /\ [][NextMultiNamed]_vars

---------------------------------------------------------------------------
(* Properties *)

(* every batch: the current one and those handed to PutLogEvents *)
AllBatches == {logEventBatch} \cup {sent[c].input : c \in 1..Len(sent)}

(* payload length + 26 of an InputLogEvent *)
InputBytes(e) == MsgLen(e.Message) + 26

(* the sum of InputBytes over events[lo..hi] *)
RECURSIVE BytesOf(_, _, _)
BytesOf(events, lo, hi) ==
    IF lo > hi THEN 0
    ELSE IF lo = hi THEN InputBytes(events[lo])
         ELSE LET mid == (lo + hi) \div 2
              IN  BytesOf(events, lo, mid) + BytesOf(events, mid + 1, hi)

TotalBytes(events) == BytesOf(events, 1, Len(events))

TimestampsOf(events) == {events[i].Timestamp : i \in 1..Len(events)}

(* the largest and the smallest timestamp are at most 24 hours apart *)
SpanWithin24Hours(events) ==
    \A a, b \in TimestampsOf(events) : a - b <= 24 * Hour

(* the events are the same, possibly in another order *)
SameEvents(s, t) ==
    /\ Len(s) = Len(t)
    /\ {s[i] : i \in 1..Len(s)} = {t[i] : i \in 1..Len(t)}
    /\ Cardinality({s[i].id : i \in 1..Len(s)}) = Len(s)

(* the number of events handed to PutLogEvents by the calls before call c *)
RECURSIVE SentBefore(_)
SentBefore(c) == IF c <= 1 THEN 0 ELSE SentBefore(c - 1) + Len(sent[c - 1].input.LogEvents)

(* the events of call c, in the order in which they were appended *)
AppendedTo(c) == SubSeq(added, SentBefore(c) + 1, SentBefore(c) + Len(sent[c].input.LogEvents))

PositionIn(events, e) == CHOOSE k \in 1..Len(events) : events[k].id = e.id

IsValidationError(ret) == ret \in {ErrEmpty, ErrTimestamp}

(* the step is a call of AddLogEntry with an event *)
AddsEvent == nextId' = nextId + 1 /\ last'.event # NilEvent

(* the step is a call of AddLogEntry with an event that passes Validate *)
AddsValidEvent == AddsEvent /\ ~IsValidationError(last'.ret) /\ last'.ret # "panic"

(* the step hands the events of the current batch, and no others, to
   PutLogEvents in one call, and leaves the event of the call as the only
   event of the current batch *)
RollsOver ==
    /\ Len(sent') = Len(sent) + 1
    /\ SubSeq(sent', 1, Len(sent)) = sent
    /\ SameEvents(sent'[Len(sent')].input.LogEvents, logEventBatch.LogEvents)
    /\ logEventBatch'.LogEvents = <<last'.event>>

(* The current batch never holds maxRequestEventCount events and never comes
   within one event of maxRequestPayloadBytes: exceedsLimit rolls it over at
   maxEventPayloadBytes, and an event has at least 27 bytes. *)
BatchBelowRequestLimits ==
    /\ Len(logEventBatch.LogEvents) < maxRequestEventCount
    /\ logEventBatch.byteTotal + maxEventPayloadBytes <= maxRequestPayloadBytes

(* C1: the current batch and every batch handed to PutLogEvents holds at most
   10,000 events and at most 1,048,576 bytes (payload + 26 per event). *)
C1_BatchWithinRequestLimits ==
    \A b \in AllBatches :
        /\ Len(b.LogEvents) <= 10000
        /\ TotalBytes(b.LogEvents) <= 1048576

(* a batch filled to maxEventPayloadBytes has been handed to PutLogEvents by
   AddLogEntry and the current batch holds a truncated event *)
C1_Witness ==
    /\ \E c \in 1..Len(sent) : TotalBytes(sent[c].input.LogEvents) = maxEventPayloadBytes
    /\ last.op = "AddLogEntry"
    /\ last.puts = 1
    /\ last.in.length > MaxMessage
    /\ logEventBatch.LogEvents = <<last.event>>

(* C2: in every batch, current or handed to PutLogEvents, the largest and the
   smallest timestamp differ by at most 24 hours. *)
C2_BatchSpanWithin24Hours ==
    \A b \in AllBatches : SpanWithin24Hours(b.LogEvents)

(* a batch holds two events exactly 24 hours apart, and an event further away
   has rolled a batch over *)
C2_Witness ==
    /\ \E b \in AllBatches : \E x, y \in TimestampsOf(b.LogEvents) : x - y = 24 * Hour
    /\ \E c \in 1..Len(sent) : sent[c].input.LogEvents # <<>>

(* C3: the events of every PutLogEvents call are in non-decreasing order of
   timestamp, are exactly the events appended to that batch, and events of
   equal timestamp are in the order in which they were appended. *)
C3_SentSortedStable ==
    \A c \in 1..Len(sent) :
        LET events == sent[c].input.LogEvents
            appended == AppendedTo(c)
        IN  /\ SameEvents(events, appended)
            /\ \A j, k \in 1..Len(events) :
                  j < k => /\ events[j].Timestamp <= events[k].Timestamp
                           /\ events[j].Timestamp = events[k].Timestamp
                                => PositionIn(appended, events[j]) < PositionIn(appended, events[k])

(* a call whose events were appended in another order than they are sent in *)
C3_Witness ==
    \E c \in 1..Len(sent) : sent[c].input.LogEvents # AppendedTo(c)

(* C4: valid events whose number is at most 10,000, whose sizes add up to at
   most 1,048,576 bytes and whose timestamps span at most 24 hours cause no
   PutLogEvents call when added to a fresh pusher, and a following ForceFlush
   makes exactly one call, with all of them. *)
C4_OnePutForEventsWithinLimits ==
    (/\ Len(added) <= 10000
     /\ TotalBytes(added) <= 1048576
     /\ SpanWithin24Hours(added))
    => /\ flushes = 0 => sent = <<>>
       /\ (flushes = 1 /\ last.op = "ForceFlush" /\ added # <<>>)
            => /\ ~crashed
               /\ Len(sent) = 1
               /\ SameEvents(sent[1].input.LogEvents, added)

(* C6: a valid event whose timestamp is more than 24 hours after the smallest
   or more than 24 hours before the largest timestamp of the non-empty current
   batch makes AddLogEntry hand that batch, without the event, to PutLogEvents
   and leaves the event as the only one of a new batch. *)
C6_RolloverOnSpan ==
    [][(/\ AddsValidEvent
        /\ logEventBatch.LogEvents # <<>>
        /\ \E t \in TimestampsOf(logEventBatch.LogEvents) :
              \/ last'.event.Timestamp - t > 24 * Hour
              \/ t - last'.event.Timestamp > 24 * Hour)
       => RollsOver]_vars

(* AddLogEntry has rolled a batch over for an event more than 24 hours away
   that would have fitted by size and count *)
C6_Witness ==
    /\ last.op = "AddLogEntry"
    /\ last.puts = 1
    /\ last.beforeLen > 0
    /\ last.beforeLen < maxRequestEventCount
    /\ last.beforeBytes + InputBytes(last.event) <= maxEventPayloadBytes
    /\ \/ last.event.Timestamp - last.beforeMin > 24 * Hour
       \/ last.beforeMax - last.event.Timestamp > 24 * Hour
    /\ logEventBatch.LogEvents = <<last.event>>

(* C7: of 10,001 valid events of one byte within 24 hours, added to a fresh
   pusher, the first 10,000 cause no PutLogEvents call; the 10,001st causes
   the only one, with 10,000 events, and is left alone in the current batch. *)
C7_OneRolloverAtTheCountLimit ==
    (/\ flushes = 0
     /\ \A i \in 1..Len(added) : MsgLen(added[i].Message) = 1
     /\ SpanWithin24Hours(added))
    => /\ Len(added) <= 10000 => sent = <<>>
       /\ Len(added) = 10001
            => /\ Len(sent) = 1
               /\ Len(sent[1].input.LogEvents) = 10000
               /\ Len(logEventBatch.LogEvents) = 1

(* C8: ForceFlush on an empty current batch makes no PutLogEvents call, leaves
   the batch as it is, returns nil and does not crash. *)
C8_FlushOfEmptyBatchIsNoOp ==
    (last.op = "ForceFlush" /\ last.beforeLen = 0)
    => /\ ~crashed
       /\ last.ret = "nil"
       /\ last.puts = 0
       /\ logEventBatch.LogEvents = <<>>

(* C9: AddLogEntry returns a validation error exactly when the message is
   empty or the timestamp, after defaulting, is more than 14 days before or
   more than 2 hours after the time of validation; it then leaves the current
   batch and the PutLogEvents calls as they are and the event in no batch. *)
C9_ValidationError ==
    [][AddsEvent =>
        LET timestamp == IF last'.in.ts = 0 THEN last'.in.gen ELSE last'.in.ts
        IN  /\ IsValidationError(last'.ret)
                <=> \/ last'.in.length = 0
                    \/ now - timestamp > 14 * 24 * Hour
                    \/ timestamp - now > 2 * Hour
            /\ IsValidationError(last'.ret)
                => /\ logEventBatch' = logEventBatch
                   /\ sent' = sent
                   /\ \A b \in {logEventBatch'} \cup {sent'[c].input : c \in 1..Len(sent')} :
                         \A i \in 1..Len(b.LogEvents) : b.LogEvents[i].id # last'.event.id]_vars

(* AddLogEntry has refused an event for its timestamp while the current batch
   holds events *)
C9_Witness ==
    /\ last.op = "AddLogEntry"
    /\ last.ret = ErrTimestamp
    /\ last.in.length > 0
    /\ logEventBatch.LogEvents # <<>>

(* C10: Validate replaces a message of more than 262,144 - 26 bytes by its
   first 262,144 - 26 - 14 bytes followed by "[Truncated...]", after which
   payload + 26 is at most 262,144; it leaves any other message as it is. *)
C10_Truncation ==
    (last.op = "AddLogEntry" /\ last.event # NilEvent)
    => IF last.in.length + 26 > 262144
       THEN /\ last.event.Message =
                  [src |-> last.in.length, n |-> 262144 - 26 - 14, suffix |-> "[Truncated...]"]
            /\ MsgLen(last.event.Message) + 26 <= 262144
       ELSE last.event.Message = [src |-> last.in.length, n |-> last.in.length, suffix |-> ""]

(* AddLogEntry has taken an event whose message was truncated *)
C10_Witness ==
    /\ last.op = "AddLogEntry"
    /\ last.event # NilEvent
    /\ last.in.length + 26 > 262144
    /\ last.ret = "nil"
    /\ logEventBatch.LogEvents = <<last.event>>

(* the ids of the events of a batch *)
IdsOf(events) == {events[i].id : i \in 1..Len(events)}

(* C11: when PutLogEvents fails, the call of AddLogEntry or ForceFlush that
   made it returns the client's error, and the events of the failed call are
   neither in the current batch nor in any later PutLogEvents call. *)
C11_PutFailureNotRequeued ==
    /\ (last.puts = 1 /\ sent[Len(sent)].err # "nil") => last.ret = sent[Len(sent)].err
    /\ \A c \in 1..Len(sent) :
          sent[c].err # "nil"
            => /\ IdsOf(sent[c].input.LogEvents) \cap IdsOf(logEventBatch.LogEvents) = {}
               /\ \A d \in (c + 1)..Len(sent) :
                     IdsOf(sent[c].input.LogEvents) \cap IdsOf(sent[d].input.LogEvents) = {}

(* a PutLogEvents call made by AddLogEntry has failed, the pusher has taken
   events since, and ForceFlush has made a later PutLogEvents call, which
   failed as well *)
C11_Witness ==
    /\ Len(sent) >= 2
    /\ sent[1].err # "nil"
    /\ sent[1].input.LogEvents # <<>>
    /\ last.op = "ForceFlush"
    /\ last.puts = 1
    /\ last.ret = "PutLogEvents failed"

(* C12: with a client that always succeeds, after AddLogEntry calls followed
   by one ForceFlush every event that passed validation is in exactly one
   PutLogEvents call and the current batch is empty. *)
C12_EveryValidEventSentOnce ==
    (/\ flushes = 1
     /\ last.op = "ForceFlush"
     /\ \A c \in 1..Len(sent) : sent[c].err = "nil")
    => /\ \A i \in 1..Len(added) :
             Cardinality({<<c, k>> \in (1..Len(sent)) \X (1..Len(added)) :
                             /\ k <= Len(sent[c].input.LogEvents)
                             /\ sent[c].input.LogEvents[k] = added[i]}) = 1
       /\ Cardinality(IdsOf(added)) = Len(added)
       /\ logEventBatch.LogEvents = <<>>

(* two valid events have been sent in two calls, the second made by the one
   ForceFlush, and both calls succeeded *)
C12_Witness ==
    /\ flushes = 1
    /\ last.op = "ForceFlush"
    /\ last.ret = "nil"
    /\ Len(sent) = 2
    /\ \A c \in 1..Len(sent) : sent[c].err = "nil"
    /\ Len(added) >= 2
    /\ logEventBatch.LogEvents = <<>>

(* the number of entries of the pusher map *)
Entries(b) == Cardinality(DOMAIN b.pusherMap)

(* the keys of b whose entry was last inserted or found more than an hour
   before now *)
IdleKeys(b) == {k \in DOMAIN b.pusherMap : now - accessed[k] > Hour}

(* the step is a call of Add for a key the map does not hold, the map being
   at its limit *)
AddsNewKeyAtLimit ==
    /\ last'.op = "Add"
    /\ Entries(bpm) = bpm.limit
    /\ last'.key \notin DOMAIN bpm.pusherMap

(* C13: in every state reached from the empty map by Add, Get,
   EvictStalePushers and ListAllPushers, the pusher map holds at most limit
   entries. *)
C13_EntriesWithinLimit == Entries(bpm) <= bpm.limit

(* Add has been refused on a map of two entries, which is at its limit *)
C13_Witness ==
    /\ last.op = "Add"
    /\ last.err = ErrTooManyPushers
    /\ Entries(bpm) = bpm.limit
    /\ Entries(bpm) >= 2

(* C14: Add of a new key to a map at its limit, all of whose entries were
   inserted or found within the last hour, leaves the pusher map and the
   tracker as they are: limit entries, the same pushers, the same times, and
   the new key in neither. *)
C14_AddRefusedWhenFull ==
    [][(AddsNewKeyAtLimit /\ IdleKeys(bpm) = {})
       => /\ bpm'.pusherMap = bpm.pusherMap
          /\ bpm'.stalePusherTracker = bpm.stalePusherTracker
          /\ Entries(bpm') = bpm'.limit
          /\ last'.key \notin DOMAIN bpm'.pusherMap
          /\ last'.key \notin DOMAIN bpm'.stalePusherTracker]_vars

(* Add of a new key has been refused while an entry was exactly one hour
   idle *)
C14_Witness ==
    /\ last.op = "Add"
    /\ last.err = ErrTooManyPushers
    /\ last.key \notin DOMAIN bpm.pusherMap
    /\ bpm = last.before
    /\ \E k \in DOMAIN bpm.pusherMap : now - accessed[k] = Hour

(* C15: Add of a new key to a map at its limit with an entry idle for more
   than an hour removes exactly the entries idle for more than an hour from
   the pusher map and the tracker, keeps the others with their pushers and
   times, and inserts the new key. *)
C15_AddEvictsIdleEntries ==
    [][(AddsNewKeyAtLimit /\ IdleKeys(bpm) # {})
       => LET kept == DOMAIN bpm.pusherMap \ IdleKeys(bpm)
          IN  /\ last'.err = "nil"
              /\ DOMAIN bpm'.pusherMap = kept \cup {last'.key}
              /\ DOMAIN bpm'.stalePusherTracker = kept \cup {last'.key}
              /\ \A k \in kept : /\ bpm'.pusherMap[k] = bpm.pusherMap[k]
                                  /\ bpm'.stalePusherTracker[k] = bpm.stalePusherTracker[k]
              /\ bpm'.pusherMap[last'.key] = last'.pusher
              /\ bpm'.stalePusherTracker[last'.key] = now]_vars

(* Add of a new key to a map of two entries has evicted one and kept the
   other *)
C15_Witness ==
    /\ last.op = "Add"
    /\ last.err = "nil"
    /\ Entries(last.before) = last.before.limit
    /\ last.key \notin DOMAIN last.before.pusherMap
    /\ \E k \in DOMAIN last.before.pusherMap : k \notin DOMAIN bpm.pusherMap
    /\ \E k \in DOMAIN last.before.pusherMap : k \in DOMAIN bpm.pusherMap
    /\ last.key \in DOMAIN bpm.pusherMap

(* C16: Get of a present key returns its pusher and true and sets its time
   in the tracker to now; Get of an absent key returns false and leaves both
   maps; and no step removes an entry inserted or found within the last
   hour. *)
C16_GetRefreshes ==
    [][/\ last'.op = "Get"
          => IF last'.key \in DOMAIN bpm.pusherMap
             THEN /\ last'.ok
                  /\ last'.ret = bpm.pusherMap[last'.key]
                  /\ bpm'.pusherMap = bpm.pusherMap
                  /\ bpm'.stalePusherTracker[last'.key] = now
                  /\ \A k \in DOMAIN bpm.stalePusherTracker \ {last'.key} :
                        bpm'.stalePusherTracker[k] = bpm.stalePusherTracker[k]
             ELSE /\ ~last'.ok
                  /\ bpm' = bpm
       /\ \A k \in DOMAIN bpm.pusherMap \ DOMAIN bpm'.pusherMap :
             now - accessed[k] > Hour]_vars

(* Get has found, in a map at its limit, a key that had been idle for more
   than an hour *)
C16_Witness ==
    /\ last.op = "Get"
    /\ last.ok
    /\ Entries(bpm) = bpm.limit
    /\ now - last.before.stalePusherTracker[last.key] > Hour
    /\ bpm.stalePusherTracker[last.key] = now

(* the CreateStream calls made for a hash *)
CreatedFor(hash) == {c \in 1..Len(created) : created[c].hash = hash}

(* C17: whatever the interleaving of the goroutines calling InitStream with
   one stream key, CreateStream is called at most once for the key, it has
   been called once when a call has returned, the call that made it returns
   what CreateStream returned, and every other call returns nil. *)
C17_CreateStreamOnce ==
    \A sk \in StreamKeys :
        /\ Cardinality(CreatedFor(Hash(sk))) <= 1
        /\ \A r \in rets :
              r.hash = Hash(sk)
                => /\ Cardinality(CreatedFor(Hash(sk))) = 1
                   /\ r.network => r.ret = created[CHOOSE c \in CreatedFor(Hash(sk)) : TRUE].err
                   /\ ~r.network => r.ret = "nil"

(* for one key, a call has made the CreateStream call, a concurrent one has
   found the stream only after taking the mutex, and a later one has found it
   at once *)
C17_Witness ==
    \E sk \in StreamKeys :
        /\ \E r \in rets : r.hash = Hash(sk) /\ r.network
        /\ \E r \in rets : r.hash = Hash(sk) /\ ~r.network /\ r.locked
        /\ \E r \in rets : r.hash = Hash(sk) /\ ~r.network /\ ~r.locked

(* the hash of the stream a batch is for *)
HashOfBatch(batch) ==
    Hash([LogGroupName |-> batch.LogGroupName, LogStreamName |-> batch.LogStreamName,
          Entity |-> NilEntity])

(* a CreateStream call for the hash has returned nil *)
StreamCreated(hash) == \E c \in 1..Len(created) : created[c].hash = hash /\ created[c].err = "nil"

(* the batches of the multiStreamPusher: those of its pushers and those
   handed to PutLogEvents *)
MultiBatches ==
    {pusherMap[hash].logEventBatch : hash \in DOMAIN pusherMap}
        \cup {sent[c].input : c \in 1..Len(sent)}

(* C18: an error of CreateStream is returned to the caller of AddLogEntry,
   and no batch holds an event of a stream unless a CreateStream call for
   that stream has succeeded. *)
C18_NoBatchingUntilStreamCreated ==
    /\ (last.op = "AddLogEntry" /\ last.initErr # "nil") => last.ret = last.initErr
    /\ \A b \in MultiBatches : b.LogEvents # <<>> => StreamCreated(HashOfBatch(b))

(* C19: when InitStream returns an error in multiStreamPusher.AddLogEntry,
   AddLogEntry returns that error, the pusher map and its pushers' batches
   stay as they are, no PutLogEvents call is made and the event is appended
   to no batch. *)
C19_InitStreamErrorLeavesPusherMap ==
    [][(last'.op = "AddLogEntry" /\ last'.initErr # "nil")
       => /\ last'.ret = last'.initErr
          /\ pusherMap' = pusherMap
          /\ sent' = sent
          /\ added' = added
          /\ \A b \in {pusherMap'[hash].logEventBatch : hash \in DOMAIN pusherMap'}
                        \cup {sent'[c].input : c \in 1..Len(sent')} :
                last'.event.id \notin IdsOf(b.LogEvents)]_vars

(* AddLogEntry has returned the error of InitStream for a stream without
   pusher, the pusher of another stream holding an event *)
C19_Witness ==
    /\ last.op = "AddLogEntry"
    /\ last.initErr = "CreateStream failed"
    /\ last.hash \notin DOMAIN pusherMap
    /\ \E hash \in DOMAIN pusherMap : pusherMap[hash].logEventBatch.LogEvents # <<>>

(* C20: multiStreamPusher.ForceFlush returns, having called ForceFlush once
   on every pusher of the map; it returns nil exactly when none of them
   returned an error, and otherwise the join of the errors of all that did. *)
C20_FlushesEveryPusher ==
    last.op = "ForceFlush"
    => LET failing == {k \in 1..Len(last.flushed) : last.flushed[k].ret # "nil"}
       IN  /\ last.ret.outcome # "panic"
           /\ \A hash \in DOMAIN last.before :
                 Cardinality({k \in 1..Len(last.flushed) : last.flushed[k].hash = hash}) = 1
           /\ last.ret.outcome = "nil" <=> failing = {}
           /\ Len(last.ret.joined) = Cardinality(failing)
           /\ \A k \in failing :
                 \E j \in 1..Len(last.ret.joined) : last.ret.joined[j] = last.flushed[k].ret

(* C26: of two PutLogEvents calls of one pusher, every event of the earlier
   one was appended before every event of the later one. *)
C26_BatchesSentInOrderOfAdding ==
    \A c, d \in 1..Len(sent) :
        c < d => \A j \in 1..Len(sent[c].input.LogEvents), k \in 1..Len(sent[d].input.LogEvents) :
                    PositionIn(added, sent[c].input.LogEvents[j])
                        < PositionIn(added, sent[d].input.LogEvents[k])

(* a rollover of AddLogEntry and then a ForceFlush have each made a
   PutLogEvents call, the later one with an event of smaller timestamp *)
C26_Witness ==
    /\ Len(sent) = 2
    /\ last.op = "ForceFlush"
    /\ last.puts = 1
    /\ \E j \in 1..Len(sent[1].input.LogEvents), k \in 1..Len(sent[2].input.LogEvents) :
          sent[2].input.LogEvents[k].Timestamp < sent[1].input.LogEvents[j].Timestamp

(* C27: a step that makes a PutLogEvents call leaves a current batch that is
   not the batch handed over, and what has been handed to PutLogEvents is
   never changed and never holds an event of the current batch. *)
C27_SentBatchIsNeverCurrentAgain ==
    [][/\ Len(sent') >= Len(sent)
       /\ SubSeq(sent', 1, Len(sent)) = sent
       /\ Len(sent') > Len(sent)
            => /\ Len(sent') = Len(sent) + 1
               /\ SameEvents(sent'[Len(sent')].input.LogEvents, logEventBatch.LogEvents)
               /\ logEventBatch' # logEventBatch
       /\ \A c \in 1..Len(sent') :
             IdsOf(sent'[c].input.LogEvents) \cap IdsOf(logEventBatch'.LogEvents) = {}]_vars

(* after a PutLogEvents call made by AddLogEntry and one made by ForceFlush,
   AddLogEntry has appended an event to the current batch *)
C27_Witness ==
    /\ Len(sent) = 2
    /\ flushes >= 1
    /\ last.op = "AddLogEntry"
    /\ last.puts = 0
    /\ last.ret = "nil"
    /\ logEventBatch.LogEvents = <<last.event>>

(* C28: the current batch and every batch handed to PutLogEvents carry the
   log group name, the log stream name and the Entity of the StreamKey the
   pusher was constructed with. *)
C28_EveryBatchTargetsTheStreamKey ==
    \A b \in AllBatches :
        /\ b.LogGroupName = streamKey.LogGroupName
        /\ b.LogStreamName = streamKey.LogStreamName
        /\ b.Entity = streamKey.Entity

(* C29: no PutLogEvents call is made with an empty batch, and AddLogEntry of
   an event that passes validation, finding the current batch empty, makes
   no PutLogEvents call and appends the event to that batch. *)
C29_NoEmptyBatchSent ==
    [][/\ \A c \in 1..Len(sent') : Len(sent'[c].input.LogEvents) >= 1
       /\ (AddsValidEvent /\ logEventBatch.LogEvents = <<>>)
            => /\ sent' = sent
               /\ logEventBatch'.LogEvents = <<last'.event>>]_vars

(* after a ForceFlush that made a PutLogEvents call, AddLogEntry of an event
   of the largest payload has found the current batch empty *)
C29_Witness ==
    /\ Len(sent) >= 1
    /\ flushes >= 1
    /\ last.op = "AddLogEntry"
    /\ last.beforeLen = 0
    /\ last.event # NilEvent
    /\ MsgLen(last.event.Message) = MaxMessage

(* C30: when AddLogEntry of an event that passes validation makes a
   PutLogEvents call that fails, it returns the client's error and leaves the
   event as the only event of the current batch; and every PutLogEvents call
   carries all events of the current batch it is made for. *)
C30_EventAcceptedWhenRolloverFails ==
    [][/\ (AddsValidEvent /\ Len(sent') > Len(sent) /\ sent'[Len(sent')].err # "nil")
            => /\ last'.ret = sent'[Len(sent')].err
               /\ logEventBatch'.LogEvents = <<last'.event>>
               /\ last'.event \notin {sent'[Len(sent')].input.LogEvents[j] :
                                        j \in 1..Len(sent'[Len(sent')].input.LogEvents)}
       /\ Len(sent') > Len(sent)
            => SameEvents(sent'[Len(sent')].input.LogEvents, logEventBatch.LogEvents)]_vars

(* the event of an AddLogEntry that returned the error of its failed
   PutLogEvents call has been handed to PutLogEvents by the following
   ForceFlush *)
C30_Witness ==
    /\ Len(sent) >= 2
    /\ sent[Len(sent) - 1].err # "nil"
    /\ last.op = "ForceFlush"
    /\ last.puts = 1
    /\ Len(added) >= 2
    /\ sent[Len(sent)].input.LogEvents = <<added[Len(added)]>>
    /\ added[Len(added) - 1] \in {sent[Len(sent) - 1].input.LogEvents[j] :
                                    j \in 1..Len(sent[Len(sent) - 1].input.LogEvents)}

(* C23: no goroutine reads lsm.streams while another goroutine is assigning
   to it, and the runtime never stops the program for such an access. *)
C23_NoReadDuringMapAssignment ==
    [][/\ \A g \in Goroutines :
            (goroutines[g].pc \in {"check1", "check2"} /\ goroutines'[g].pc # goroutines[g].pc)
                => ~MapBeingWritten
       /\ crashed' = crashed]_vars

(* the four strings Hash formats: the two names and mapToString of the
   entity's two maps, "" for a nil Entity *)
HashParts(sk) ==
    <<sk.LogGroupName, sk.LogStreamName,
      IF sk.Entity = NilEntity THEN "" ELSE sk.Entity.Attributes,
      IF sk.Entity = NilEntity THEN "" ELSE sk.Entity.KeyAttributes>>

(* C25: two stream keys have the same Hash exactly if their log group names,
   their log stream names and the strings made of their entity's Attributes
   and KeyAttributes are equal one by one; a key has the same Hash each time. *)
C25_HashEqualIffPartsEqual ==
    last.op = "Hash"
        => /\ (last.hashA = last.hashB) <=> (HashParts(last.a) = HashParts(last.b))
           /\ last.hashA = Hash(last.a)
           /\ last.hashB = Hash(last.b)

(* C21: the multiStreamPusher never holds more than pusherMapLimit pushers. *)
C21_PushersWithinCapacity == Cardinality(DOMAIN pusherMap) <= pusherMapLimit

(* C22: with Add and Get called by several goroutines with distinct keys, no
   two goroutines are ever at accesses of the same map of which one writes,
   the runtime never stops the program for such accesses, and the map never
   holds more than limit entries. *)
C22_AddAndGetSafeForConcurrentCallers ==
    /\ \A g, h \in Goroutines : ~Races(g, h)
    /\ ~crashed
    /\ Cardinality(DOMAIN bpm.pusherMap) <= bpm.limit

(* the logPushers made for the stream of hash *)
PushersOf(hash) == {a \in 1..Len(heap) : heap[a].hash = hash}

(* C24: after concurrent AddLogEntry calls and the ForceFlush that follows
   them, with CreateStream and PutLogEvents always succeeding, one logPusher
   was made for each stream, and every event given to AddLogEntry is in
   exactly one PutLogEvents call. *)
C24_OnePusherPerStreamAndEveryEventSentOnce ==
    (flushes = 1 /\ ~crashed)
        => /\ \A hash \in lsm.streams : Cardinality(PushersOf(hash)) = 1
           /\ Len(added) = nextId
           /\ \A i \in 1..Len(added) :
                 Cardinality({c \in 1..Len(sent) :
                     \E j \in 1..Len(sent[c].input.LogEvents) :
                         sent[c].input.LogEvents[j] = added[i]}) = 1

(* C31: in the current batch and in every batch handed to PutLogEvents,
   byteTotal is the sum of payload length + 26 over the events; with events,
   minTimestampMs and maxTimestampMs are the smallest and the largest of
   their timestamps; without events all three are 0. *)
C31_BatchFiguresMatchEvents ==
    \A b \in AllBatches :
        /\ b.byteTotal = TotalBytes(b.LogEvents)
        /\ IF b.LogEvents = <<>>
           THEN b.byteTotal = 0 /\ b.minTimestampMs = 0 /\ b.maxTimestampMs = 0
           ELSE /\ b.minTimestampMs \in TimestampsOf(b.LogEvents)
                /\ b.maxTimestampMs \in TimestampsOf(b.LogEvents)
                /\ \A t \in TimestampsOf(b.LogEvents) :
                      b.minTimestampMs <= t /\ t <= b.maxTimestampMs

(* after a PutLogEvents call, the current batch holds events of which a
   later one has the smaller timestamp *)
C31_Witness ==
    /\ Len(sent) >= 1
    /\ Len(logEventBatch.LogEvents) >= 2
    /\ logEventBatch.LogEvents[2].Timestamp < logEventBatch.LogEvents[1].Timestamp
    /\ logEventBatch.minTimestampMs = logEventBatch.LogEvents[2].Timestamp

(* C32: after any sequence of Add, Get, EvictStalePushers and ListAllPushers
   calls by one caller, pusherMap and stalePusherTracker have the same keys. *)
C32_TrackerHasTheKeysOfThePusherMap ==
    DOMAIN bpm.pusherMap = DOMAIN bpm.stalePusherTracker

(* EvictStalePushers has removed an entry and left another, and Get has then
   missed the removed key *)
C32_Witness ==
    /\ last.op = "Get"
    /\ ~last.ok
    /\ last.key \in DOMAIN accessed
    /\ bpm.pusherMap # EmptyMap

(* C33: a call of Add or EvictStalePushers on a map with fewer entries than
   its limit, and every call of Get and ListAllPushers, leaves every key of
   pusherMap and of stalePusherTracker in place with its pusher. *)
C33_EntriesLeaveOnlyAtTheLimit ==
    [][(\/ last'.op \in {"Get", "ListAllPushers"}
        \/ last'.op \in {"Add", "EvictStalePushers"} /\ Entries(bpm) < bpm.limit)
       => /\ DOMAIN bpm.pusherMap \subseteq DOMAIN bpm'.pusherMap
          /\ DOMAIN bpm.stalePusherTracker \subseteq DOMAIN bpm'.stalePusherTracker
          /\ \A k \in DOMAIN bpm.pusherMap \ {last'.key} :
                bpm'.pusherMap[k] = bpm.pusherMap[k]]_vars

(* EvictStalePushers has been called on a map below its limit that holds an
   entry idle for more than an hour, and the entry is still there *)
C33_Witness ==
    /\ last.op = "EvictStalePushers"
    /\ Entries(last.before) < last.before.limit
    /\ \E k \in DOMAIN bpm.pusherMap : now - bpm.stalePusherTracker[k] > Hour

(* the keys of pusherMap that the step removes *)
Evicted == DOMAIN bpm.pusherMap \ DOMAIN bpm'.pusherMap

(* C34: a call of EvictStalePushers, or of Add, that removes entries removes
   their keys from pusherMap and from stalePusherTracker, makes no call on
   any pusher, and no PutLogEvents call is made. *)
C34_EvictionCallsNoPusher ==
    [][Evicted # {}
       => /\ last'.op \in {"Add", "EvictStalePushers"}
          /\ Evicted \cap DOMAIN bpm'.stalePusherTracker \subseteq {last'.key}
          /\ Evicted \subseteq DOMAIN bpm.stalePusherTracker
          /\ last'.calls = {}
          /\ sent' = sent]_vars

(* EvictStalePushers has removed an entry of a map at its limit *)
C34_Witness ==
    /\ last.op = "EvictStalePushers"
    /\ Entries(last.before) = last.before.limit
    /\ \E k \in DOMAIN last.before.pusherMap : k \notin DOMAIN bpm.pusherMap
    /\ last.calls = {}

(* C35: a call of multiStreamPusher.AddLogEntry whose InitStream succeeds
   leaves a pusher under the hash of the event's stream key, makes no other
   pusher and removes none, keeps the pusher of a hash that had one, and the
   batch that takes the event is a batch of the log group and log stream of
   the event's own stream key. *)
C35_OnePusherPerStreamNoMixing ==
    [][(last'.op = "AddLogEntry" /\ last'.initErr = "nil")
       => /\ DOMAIN pusherMap' = DOMAIN pusherMap \cup {last'.hash}
          /\ \A hash \in DOMAIN pusherMap :
                /\ pusherMap'[hash].logGroupName = pusherMap[hash].logGroupName
                /\ pusherMap'[hash].logStreamName = pusherMap[hash].logStreamName
                /\ hash # last'.hash => pusherMap'[hash] = pusherMap[hash]
          /\ LET batch == pusherMap'[last'.hash].logEventBatch
             IN  (\E j \in 1..Len(batch.LogEvents) : batch.LogEvents[j] = last'.event)
                    => /\ batch.LogGroupName = last'.key.LogGroupName
                       /\ batch.LogStreamName = last'.key.LogStreamName]_vars

(* C36: a call of AddLogEntry or ForceFlush makes no or one PutLogEvents
   call; ForceFlush of a batch that holds events, and every call that hands
   a batch on, makes exactly one, with the events of that batch, none of
   which was in an earlier call whether that call failed or not, and with
   the retryCnt given to NewPusher if that is greater than 0 and
   defaultRetryCount otherwise. *)
C36_OneCallWithTheRetryBudget ==
    [][/\ last'.puts \in {0, 1}
       /\ Len(sent') = Len(sent) + last'.puts
       /\ \A c \in 1..Len(sent) : sent'[c] = sent[c]
       /\ (last'.op = "ForceFlush" /\ logEventBatch.LogEvents # <<>>) => last'.puts = 1
       /\ last'.puts = 1
            => LET call == sent'[Len(sent')]
               IN  /\ call.retryCnt = IF retryCnt > 0 THEN retryCnt ELSE defaultRetryCount
                   /\ logEventBatch.LogEvents # <<>>
                   /\ IdsOf(call.input.LogEvents) = IdsOf(logEventBatch.LogEvents)
                   /\ Len(call.input.LogEvents) = Len(logEventBatch.LogEvents)
                   /\ \A c \in 1..Len(sent) :
                         IdsOf(sent[c].input.LogEvents) \cap IdsOf(call.input.LogEvents) = {}]_vars

(* NewPusher was given a retryCnt that is not greater than 0, a PutLogEvents
   call made by AddLogEntry has failed, and ForceFlush has handed the next
   batch on in one call with the default retry count *)
C36_Witness ==
    /\ retryCnt <= 0
    /\ Len(sent) = 2
    /\ sent[1].err # "nil"
    /\ sent[1].retryCnt = defaultRetryCount
    /\ sent[2].retryCnt = defaultRetryCount
    /\ last.op = "ForceFlush"
    /\ last.puts = 1

(* C37: AddLogEntry of an event with timestamp 0 is accepted by Validate
   exactly when the event's GeneratedTime is at least now - 14 days and at
   most now + 2 hours and its message is not empty; the event is then stored
   with its GeneratedTime as timestamp; and no event of the current batch or
   of a PutLogEvents call has the timestamp 0. *)
C37_ZeroTimestampTakesGeneratedTime ==
    [][/\ (nextId' # nextId /\ last'.op = "AddLogEntry" /\ last'.in # NoInput /\ last'.in.ts = 0)
            => LET accepted == last'.ret \notin {ErrEmpty, ErrTimestamp}
                   inWindow == /\ last'.in.gen >= now - 14 * 24 * Hour
                               /\ last'.in.gen <= now + 2 * Hour
               IN  /\ accepted <=> (inWindow /\ last'.in.length > 0)
                   /\ accepted <=> Len(added') = Len(added) + 1
                   /\ accepted => /\ added'[Len(added')].Timestamp = last'.in.gen
                                  /\ \E i \in 1..Len(logEventBatch'.LogEvents) :
                                        logEventBatch'.LogEvents[i] = added'[Len(added')]
       /\ \A i \in 1..Len(logEventBatch'.LogEvents) :
             logEventBatch'.LogEvents[i].Timestamp # 0
       /\ \A c \in 1..Len(sent') : \A i \in 1..Len(sent'[c].input.LogEvents) :
             sent'[c].input.LogEvents[i].Timestamp # 0]_vars

(* after the clock has advanced, an event with timestamp 0 and a
   GeneratedTime two hours ahead of the clock has been accepted and is in the
   batch with that time as its timestamp *)
C37_Witness ==
    /\ last.op = "AddLogEntry"
    /\ last.in # NoInput
    /\ last.in.ts = 0
    /\ now > StartTime
    /\ last.in.gen = now + 2 * Hour
    /\ last.ret = "nil"
    /\ \E i \in 1..Len(logEventBatch.LogEvents) :
          /\ logEventBatch.LogEvents[i] = last.event
          /\ logEventBatch.LogEvents[i].Timestamp = last.in.gen

====
